---- MODULE Spec2Model ----
(***************************************************************************)
(* A model of the BSON view/iterator, the recursive validator and the      *)
(* in-place mutator of libbson's bson2 sources.                            *)
(*                                                                         *)
(* Buffers are sequences of bytes (0..255).  C pointers into a buffer are  *)
(* 0-based offsets; the null pointer is NULL.  A 32-bit unsigned value     *)
(* read from a buffer is kept as a pair of 16-bit halves (hi, lo), so      *)
(* that values of 2^31 and more keep their width.                          *)
(***************************************************************************)
EXTENDS Integers, Sequences, FiniteSets, TLC

VARIABLES
  buf,      \* view side: the caller's byte buffer (data, data_len = Len(buf))
  view,     \* view side: result of bson_view_from_data: [data, reason, reads]
  it,       \* view side: the current bson_iterator
  reads,    \* view side: offsets of buf read since the view was made
  pc,       \* position of the driver
  vstack,   \* validator: the active calls of _validate_document, innermost
            \* last; each [iter, end] and, while a nested call runs, the
            \* value position val and the pending jump
  vres,     \* validator: the stop reason returned, NULL while running
  vreads,   \* validator: offsets of buf read
  vsteps,   \* validator: loop iterations started
  heap,     \* mutator: the root's allocation, one entry per byte of capacity
  muts,     \* mutator: the chain of bson_mut objects in use, the root first:
            \* [data, cap] with cap the capacity or the negated offset of the
            \* element in the parent
  subs,     \* mutator: for each child, what the caller saw when it made it
  lastcall, \* mutator: the last call and what it returned
  nops      \* mutator: insert and erase calls made

vars ==
  <<buf, view, it, reads, pc, vstack, vres, vreads, vsteps, heap, muts, subs,
    lastcall, nops>>

\* the state of the mutator
mvars == <<heap, muts, subs, lastcall, nops>>

\* the state of a run of _validate_document
vvars == <<vstack, vres, vreads, vsteps>>

---------------------------------------------------------------------------
(* Bounds of the model *)

\* longest buffer handed to bson_view_from_data alone
MaxHdrBuf == 7

\* longest document that is iterated
MaxIterBuf == 11

\* longest document that is validated
MaxValBuf == 11

\* loop iterations of the validator that are followed
MaxValidateSteps == 14

\* calls of bson_next a caller makes to find a position
MaxWalk == 3

\* insert and erase calls in one run
MaxOps == 2

\* mutators in a chain: the root and its nested children
MaxDepth == 3

\* the larger of the capacities asked of bson_mut_new_ex
BigReserve == 32

\* the size of the documents whose first value has more than 16 bytes left
LongIterBuf == 24

\* most bytes between the key of an element with an unknown tag and the
\* document's terminator
MaxTagTail == 18

\* most bytes between the length prefix of a length-prefixed element and
\* the document's terminator
MaxPrefixedTail == 2

\* most bytes between the key of a fixed-size element and the document's
\* terminator
MaxFixedTail == 17

---------------------------------------------------------------------------
(* Program constants *)

NULL == -1

INT32_MAX == 2147483647

BSON_VIEW_OKAY == 0
BSON_VIEW_SHORT_READ == 1
BSON_VIEW_INVALID_HEADER == 2
BSON_VIEW_INVALID_TERMINATOR == 3

BSON_ITER_NO_ERROR == 0
BSON_ITER_SHORT_READ == 1
BSON_ITER_INVALID_TYPE == 2
BSON_ITER_INVALID == 3
BSON_ITER_INVALID_LENGTH == 4

BSONV_ITER_STOP_NOT_DONE == 0
BSONV_ITER_STOP_DONE == 1
BSONV_ITER_STOP_INVALID == 2
BSONV_ITER_STOP_INVALID_TYPE == 3
BSONV_ITER_STOP_SHORT_READ == 4

BSON_TYPE_EOD == 0
BSON_TYPE_DOUBLE == 1
BSON_TYPE_UTF8 == 2
BSON_TYPE_DOCUMENT == 3
BSON_TYPE_ARRAY == 4
BSON_TYPE_BINARY == 5
BSON_TYPE_UNDEFINED == 6
BSON_TYPE_OID == 7
BSON_TYPE_BOOL == 8
BSON_TYPE_DATE_TIME == 9
BSON_TYPE_NULL == 10
BSON_TYPE_REGEX == 11
BSON_TYPE_DBPOINTER == 12
BSON_TYPE_CODE == 13
BSON_TYPE_SYMBOL == 14
BSON_TYPE_CODEWSCOPE == 15
BSON_TYPE_INT32 == 16
BSON_TYPE_TIMESTAMP == 17
BSON_TYPE_INT64 == 18
BSON_TYPE_DECIMAL128 == 19
BSON_TYPE_MAXKEY == 127
BSON_TYPE_MINKEY == 255

---------------------------------------------------------------------------
(* Bytes and 32-bit words *)

At(b, i) == b[i + 1]

InBuf(b, i) == i >= 0 /\ i < Len(b)

SetMin(S) == CHOOSE x \in S : \A y \in S : x <= y

SetMax(S) == CHOOSE x \in S : \A y \in S : x >= y

\* uint32 as halves: value = hi * 65536 + lo
bson_read_uint32_le(b, off) ==
  [hi |-> At(b, off + 2) + 256 * At(b, off + 3),
   lo |-> At(b, off) + 256 * At(b, off + 1)]

\* an unsigned 32-bit (or wider) value compared with a non-negative int
WideGt(w, n) == w.hi >= 32768 \/ w.hi * 65536 + w.lo > n

WideLt(w, n) == w.hi < 32768 /\ w.hi * 65536 + w.lo < n

\* the value, when it is below 2^31
WideInt(w) == w.hi * 65536 + w.lo

\* a uint32 converted to int32 (two's complement)
ToInt32(w) ==
  IF w.hi >= 32768 THEN (w.hi - 65536) * 65536 + w.lo
  ELSE w.hi * 65536 + w.lo

\* uint32 addition of a small number, modulo 2^32
WideAdd(w, n) ==
  [hi |-> (w.hi + ((w.lo + n) \div 65536)) % 65536,
   lo |-> (w.lo + n) % 65536]

\* w > 2^31 (1ull << 31)
WideGtTwo31(w) == w.hi > 32768 \/ (w.hi = 32768 /\ w.lo > 0)

---------------------------------------------------------------------------
(* bson_view_from_data *)

\* a variant that compares the declared length with data_len before it checks
\* the header's range
bson_view_from_data_reason_swapped(data, data_len) ==
  IF data_len < 5 THEN BSON_VIEW_SHORT_READ
  ELSE LET len == bson_read_uint32_le(data, 0) IN
    IF WideGt(len, data_len) THEN BSON_VIEW_SHORT_READ
    ELSE IF WideGtTwo31(len) \/ WideLt(len, 5) THEN BSON_VIEW_INVALID_HEADER
    ELSE IF At(data, WideInt(len) - 1) # 0 THEN BSON_VIEW_INVALID_TERMINATOR
    ELSE BSON_VIEW_OKAY

\* the reason reported, in the order the checks are made
bson_view_from_data_reason(data, data_len) ==
  IF data_len < 5 THEN BSON_VIEW_SHORT_READ
  ELSE LET len == bson_read_uint32_le(data, 0) IN
    IF WideGtTwo31(len) \/ WideLt(len, 5) THEN BSON_VIEW_INVALID_HEADER
    ELSE IF WideGt(len, data_len) THEN BSON_VIEW_SHORT_READ
    ELSE IF At(data, WideInt(len) - 1) # 0 THEN BSON_VIEW_INVALID_TERMINATOR
    ELSE BSON_VIEW_OKAY

\* the offsets of data that the call reads
bson_view_from_data_reads(data, data_len) ==
  IF data_len < 5 THEN {}
  ELSE LET len == bson_read_uint32_le(data, 0) IN
    IF WideGtTwo31(len) \/ WideLt(len, 5) \/ WideGt(len, data_len)
    THEN 0..3
    ELSE (0..3) \cup {WideInt(len) - 1}

bson_view_from_data(data, data_len) ==
  LET err == bson_view_from_data_reason(data, data_len) IN
  [data   |-> IF err = BSON_VIEW_OKAY THEN 0 ELSE NULL,
   reason |-> err,
   reads  |-> bson_view_from_data_reads(data, data_len)]

\* BSON_VIEW_NULL
NoView == [data |-> NULL, reason |-> BSON_VIEW_OKAY, reads |-> {}]

\* a zero-initialized bson_iterator
NoIter == [ptr |-> NULL, rlen |-> 0, keylen |-> 0]

bson_view_len(b, v) ==
  IF v.data = NULL THEN 0 ELSE WideInt(bson_read_uint32_le(b, v.data))

---------------------------------------------------------------------------
(* C strings inside a buffer *)

\* strnlen(s, max) on the bytes of b from offset s.  When no NUL is found
\* before the buffer ends and max reaches past it, the scan leaves the
\* buffer: the result is then the count of bytes up to the buffer's end.
strnlen(b, s, max) ==
  LET avail == IF Len(b) - s < max THEN Len(b) - s ELSE max
      Z == {k \in 0..(avail - 1) : At(b, s + k) = 0}
  IN IF Z # {} THEN SetMin(Z) ELSE avail

\* the offsets strnlen(s, max) reads; Len(b) stands for a read past the buffer
strnlen_reads(b, s, max) ==
  LET n == strnlen(b, s, max)
      avail == IF Len(b) - s < max THEN Len(b) - s ELSE max
  IN IF n < avail THEN s..(s + n)
     ELSE IF max > avail THEN s..Len(b)
     ELSE s..(s + max - 1)

\* strlen(s): the scan is only bounded by the first NUL
strlen(b, s) == strnlen(b, s, INT32_MAX)

strlen_reads(b, s) == strnlen_reads(b, s, INT32_MAX)

---------------------------------------------------------------------------
(* The element size oracle (lazy iterator) *)

\* const_sizes without the subtype byte of a binary
const_sizes_no_subtype(tag) ==
  CASE tag = 1 -> 8
    [] tag \in {2, 5, 13, 14, 16} -> 4
    [] tag \in {7, 12} -> 12
    [] tag = 8 -> 1
    [] tag \in {9, 17, 18} -> 8
    [] tag = 15 -> 4 + 4
    [] tag = 19 -> 16
    [] tag \in {0, 3, 4, 6, 10, 127, 255} -> 0
    [] OTHER -> INT32_MAX

const_sizes(tag) ==
  CASE tag = 0 -> 0
    [] tag = 1 -> 8
    [] tag = 2 -> 4
    [] tag = 3 -> 0
    [] tag = 4 -> 0
    [] tag = 5 -> 4 + 1
    [] tag = 6 -> 0
    [] tag = 7 -> 12
    [] tag = 8 -> 1
    [] tag = 9 -> 8
    [] tag = 10 -> 0
    [] tag = 11 -> INT32_MAX
    [] tag = 12 -> 12
    [] tag = 13 -> 4
    [] tag = 14 -> 4
    [] tag = 15 -> 4 + 4
    [] tag = 16 -> 4
    [] tag = 17 -> 8
    [] tag = 18 -> 8
    [] tag = 19 -> 16
    [] tag = 127 -> 0
    [] tag = 255 -> 0
    [] OTHER -> INT32_MAX

varsize_pick(tag) == tag \in {2, 3, 4, 5, 12, 13, 14, 15}

\* _bson_value_re_len: two C strings; maxlen counts the bytes up to and
\* including the document's final byte
_bson_value_re_len(b, valptr, maxlen) ==
  LET re_len == strnlen(b, valptr, maxlen) + 1
      opt_bytes_avail == maxlen - re_len
      opt_len == strnlen(b, valptr + re_len, opt_bytes_avail)
      trailing_bytes == opt_bytes_avail - opt_len
  IN IF trailing_bytes < 2 THEN -BSON_ITER_SHORT_READ
     ELSE re_len + (opt_len + 1)

_bson_value_re_len_reads(b, valptr, maxlen) ==
  LET re_len == strnlen(b, valptr, maxlen) + 1
      opt_bytes_avail == maxlen - re_len
  IN strnlen_reads(b, valptr, maxlen) \cup
     (IF opt_bytes_avail > 0
      THEN strnlen_reads(b, valptr + re_len, opt_bytes_avail)
      ELSE IF opt_bytes_avail < 0 THEN {Len(b)} ELSE {})

\* const_size + varlen, held wide (the code adds in 64 bits)
full_len_of(b, tag, valptr) ==
  IF varsize_pick(tag)
  THEN LET varlen == bson_read_uint32_le(b, valptr)
           sum == varlen.lo + const_sizes(tag)
       IN [hi |-> varlen.hi + sum \div 65536, lo |-> sum % 65536]
  ELSE [hi |-> const_sizes(tag) \div 65536, lo |-> const_sizes(tag) % 65536]

\* a variant that reports every value that does not fit as a wrong length,
\* without looking at the tag again
_bson_valsize_length_only(b, tag, valptr, val_maxlen) ==
  IF varsize_pick(tag) /\ ~(val_maxlen > 4)
  THEN -BSON_ITER_INVALID_LENGTH
  ELSE LET full_len == full_len_of(b, tag, valptr) IN
    IF WideLt(full_len, val_maxlen) THEN WideInt(full_len)
    ELSE IF tag = BSON_TYPE_REGEX THEN _bson_value_re_len(b, valptr, val_maxlen)
    ELSE -BSON_ITER_INVALID_LENGTH

_bson_valsize(b, tag, valptr, val_maxlen) ==
  IF varsize_pick(tag) /\ ~(val_maxlen > 4)
  THEN -BSON_ITER_INVALID_LENGTH
  ELSE LET full_len == full_len_of(b, tag, valptr) IN
    IF WideLt(full_len, val_maxlen) THEN WideInt(full_len)
    ELSE IF tag = BSON_TYPE_REGEX THEN _bson_value_re_len(b, valptr, val_maxlen)
    ELSE IF const_sizes(tag) = INT32_MAX THEN -BSON_ITER_INVALID_TYPE
    ELSE -BSON_ITER_INVALID_LENGTH

_bson_valsize_reads(b, tag, valptr, val_maxlen) ==
  IF varsize_pick(tag)
  THEN (IF val_maxlen > 4 THEN valptr..(valptr + 3) ELSE {})
  ELSE IF tag = BSON_TYPE_REGEX
  THEN _bson_value_re_len_reads(b, valptr, val_maxlen)
  ELSE {}

---------------------------------------------------------------------------
(* Iterators: [ptr, rlen, keylen] *)

\* a variant that drops the error kind
_bson_iterator_error_dropped(err) == [ptr |-> NULL, rlen |-> 0, keylen |-> 0]

_bson_iterator_error(err) == [ptr |-> NULL, rlen |-> -err, keylen |-> 0]

bson_iterator_done(i) == i.rlen <= 1

bson_get_error(i) == IF i.rlen < 0 THEN -i.rlen ELSE BSON_ITER_NO_ERROR

bson_iterator_type(b, i) == At(b, i.ptr)

_bson_iterator_value_ptr(i) == i.ptr + 1 + i.keylen + 1

\* the fixed-size types whose size check is skipped when more than 16 value
\* bytes are available
SkipCheckTypes ==
  {BSON_TYPE_NULL, BSON_TYPE_UNDEFINED, BSON_TYPE_TIMESTAMP,
   BSON_TYPE_DATE_TIME, BSON_TYPE_DOUBLE, BSON_TYPE_BOOL,
   BSON_TYPE_DECIMAL128, BSON_TYPE_INT32, BSON_TYPE_INT64}

\* what _bson_iterator_at assumes (BV_ASSERT): in the unchecked build a call
\* that breaks it has undefined behaviour
_bson_iterator_at_pre(b, data, maxlen) ==
  /\ maxlen > 0
  /\ data >= 0
  /\ data + maxlen <= Len(b)
  /\ At(b, data + maxlen - 1) = 0

\* a variant that skips the value size check for every type
_bson_iterator_at_unchecked(b, data, maxlen) ==
  IF maxlen = 1 THEN [ptr |-> data, rlen |-> 1, keylen |-> 0]
  ELSE
    LET keylen == strlen(b, data + 1)
        val_maxlen == ((maxlen - 1) - keylen) - 1
    IN IF val_maxlen < 1 THEN _bson_iterator_error(BSON_ITER_SHORT_READ)
       ELSE [ptr |-> data, rlen |-> maxlen, keylen |-> keylen]

_bson_iterator_at(b, data, maxlen) ==
  IF maxlen = 1 THEN [ptr |-> data, rlen |-> 1, keylen |-> 0]
  ELSE
    LET type == At(b, data)
        key_maxlen == maxlen - 1
        keyptr == data + 1
        keylen == strlen(b, keyptr)
        val_maxlen == (key_maxlen - keylen) - 1
        need_check_size == ~(val_maxlen > 16 /\ type \in SkipCheckTypes)
        valptr == keyptr + (keylen + 1)
    IN IF val_maxlen < 1 THEN _bson_iterator_error(BSON_ITER_SHORT_READ)
       ELSE IF need_check_size /\ _bson_valsize(b, type, valptr, val_maxlen) < 0
       THEN _bson_iterator_error(-_bson_valsize(b, type, valptr, val_maxlen))
       ELSE [ptr |-> data, rlen |-> maxlen, keylen |-> keylen]

_bson_iterator_at_reads(b, data, maxlen) ==
  IF maxlen = 1 THEN {data}
  ELSE
    LET type == At(b, data)
        keyptr == data + 1
        keylen == strlen(b, keyptr)
        val_maxlen == ((maxlen - 1) - keylen) - 1
        need_check_size == ~(val_maxlen > 16 /\ type \in SkipCheckTypes)
    IN {data} \cup strlen_reads(b, keyptr) \cup
       (IF val_maxlen >= 1 /\ need_check_size
        THEN _bson_valsize_reads(b, type, keyptr + (keylen + 1), val_maxlen)
        ELSE {})

\* a variant that skips the tag, the key and its NUL but not the value
skip_size_key_only(b, i) == 1 + i.keylen + 1

\* the byte count bson_next skips: tag, key, NUL and the value
skip_size(b, i) ==
  (1 + i.keylen + 1) +
  _bson_valsize(b, bson_iterator_type(b, i), i.ptr + (1 + i.keylen + 1),
                INT32_MAX)

bson_next(b, i) == _bson_iterator_at(b, i.ptr + skip_size(b, i),
                                     i.rlen - skip_size(b, i))

bson_next_pre(b, i) ==
  /\ ~bson_iterator_done(i)
  /\ _bson_iterator_at_pre(b, i.ptr + skip_size(b, i), i.rlen - skip_size(b, i))

bson_next_reads(b, i) ==
  {i.ptr}
  \cup _bson_valsize_reads(b, bson_iterator_type(b, i),
                           i.ptr + (1 + i.keylen + 1), INT32_MAX)
  \cup _bson_iterator_at_reads(b, i.ptr + skip_size(b, i),
                               i.rlen - skip_size(b, i))

bson_begin(b, v) == _bson_iterator_at(b, v.data + 4, bson_view_len(b, v) - 4)

bson_begin_reads(b, v) ==
  (v.data..(v.data + 3)) \cup
  _bson_iterator_at_reads(b, v.data + 4, bson_view_len(b, v) - 4)

bson_end(b, v) == _bson_iterator_at(b, v.data + bson_view_len(b, v) - 1, 1)

bson_iterator_eq(left, right) == left.ptr = right.ptr

---------------------------------------------------------------------------
(* Inputs of the view side *)

\* buffers that exercise the header checks: any declared length around the
\* buffer length, with and without the top bit, any terminator
IsHdrBuffer(b) ==
  \/ \E n \in 4..MaxHdrBuf :
       \E b0 \in 0..(MaxHdrBuf + 1), b1 \in {0, 1}, b3 \in {0, 128} :
         \E tail \in [1..(n - 4) -> {0, 1}] :
           b = <<b0, b1, 0, b3>> \o tail
  \/ \E n \in 0..3 : b \in [1..n -> {0, 5}]

\* bytes an iterated document is made of: NUL, double (too long to fit) and
\* the value 1, UTF-8, regex, min-key and the high byte of a huge prefix
IterBytes == {0, 1, 2, 11, 255}

\* whole documents with a correct header, every body over IterBytes, ending
\* in a zero or a non-zero byte
IsIterBuffer(b) ==
  \E n \in 5..MaxIterBuf :
    \E body \in [1..(n - 5) -> IterBytes], last \in {0, 1} :
      b = <<n, 0, 0, 0>> \o body \o <<last>>

\* documents whose first element has an empty key and more than 16 bytes
\* after it, the rest filled with one byte
IsLongBuffer(b) ==
  \E t \in SkipCheckTypes \cup {BSON_TYPE_UTF8, BSON_TYPE_REGEX},
     c \in {0, 1, 16}, last \in {0, 1} :
    b = <<LongIterBuf, 0, 0, 0, t, 0>> \o [k \in 1..(LongIterBuf - 7) |-> c]
        \o <<last>>

\* documents of one element with an empty key: a DBPointer with the
\* collection name "" and an object id filled with one byte, and a code
\* with scope with the code "" or "a" and the empty scope
IsPointerBuffer(b) ==
  \/ \E c \in {0, 1} :
       b = <<24, 0, 0, 0, BSON_TYPE_DBPOINTER, 0, 1, 0, 0, 0, 0>>
           \o [k \in 1..12 |-> c] \o <<0>>
  \/ b = <<21, 0, 0, 0, BSON_TYPE_CODEWSCOPE, 0, 14, 0, 0, 0, 1, 0, 0, 0, 0,
           5, 0, 0, 0, 0, 0>>
  \/ b = <<22, 0, 0, 0, BSON_TYPE_CODEWSCOPE, 0, 15, 0, 0, 0, 2, 0, 0, 0, 97,
           0, 5, 0, 0, 0, 0, 0>>

\* tags no BSON type has: the ends of the two unused ranges
UnknownTags == {20, 126, 128, 254}

\* documents with an element of an unknown tag, first or behind a min-key
\* element, with the key "" or "a" and any count of bytes behind the key
IsUnknownTagBuffer(b) ==
  \E t \in UnknownTags, key \in {<<>>, <<97>>}, c \in {0, 255},
     pre \in {<<>>, <<BSON_TYPE_MINKEY, 0>>}, n \in 0..MaxTagTail :
    b = <<4 + Len(pre) + 1 + Len(key) + 1 + n + 1, 0, 0, 0>> \o pre
        \o <<t>> \o key \o <<0>> \o [k \in 1..n |-> c] \o <<0>>

\* the types whose value is a length prefix and that many bytes more:
\* UTF-8, document, array, binary, code and symbol
PrefixedTags ==
  {BSON_TYPE_UTF8, BSON_TYPE_DOCUMENT, BSON_TYPE_ARRAY, BSON_TYPE_BINARY,
   BSON_TYPE_CODE, BSON_TYPE_SYMBOL}

\* documents whose first element is of a length-prefixed type with an empty
\* key: a prefix of 0 to 7 or 255 and one or more bytes, zero or 'A', behind
\* it, or fewer than four zero bytes where the prefix belongs
IsPrefixedBuffer(b) ==
  \E t \in PrefixedTags :
    \/ \E n \in 1..MaxPrefixedTail :
         \E p \in (0..7) \cup {255}, str \in [1..n -> {0, 65}] :
           b = <<4 + 1 + 1 + 4 + n + 1, 0, 0, 0, t, 0, p, 0, 0, 0>>
               \o str \o <<0>>
    \/ \E n \in 0..3 :
         b = <<4 + 1 + 1 + n + 1, 0, 0, 0, t, 0>> \o [k \in 1..n |-> 0]
             \o <<0>>

\* the types whose value has a fixed size
FixedTags ==
  {BSON_TYPE_DOUBLE, BSON_TYPE_UNDEFINED, BSON_TYPE_OID, BSON_TYPE_BOOL,
   BSON_TYPE_DATE_TIME, BSON_TYPE_NULL, BSON_TYPE_INT32, BSON_TYPE_TIMESTAMP,
   BSON_TYPE_INT64, BSON_TYPE_DECIMAL128, BSON_TYPE_MAXKEY, BSON_TYPE_MINKEY}

\* documents whose first element is of a fixed-size type with an empty key
\* and any count of zero bytes between the key and the terminator
IsFixedBuffer(b) ==
  \E t \in FixedTags, n \in 0..MaxFixedTail :
    b = <<4 + 1 + 1 + n + 1, 0, 0, 0, t, 0>> \o [k \in 1..n |-> 0] \o <<0>>

InitValidator ==
  /\ vstack = <<>>
  /\ vres = NULL
  /\ vreads = {}
  /\ vsteps = 0

\* an element handed to an insert function: e[1] tells which function,
\* e[2] and e[3] are its sequence arguments and e[4] its number argument
Elem(kind, a, b, n) == <<kind, a, b, n>>

NoElem == Elem("none", <<>>, <<>>, 0)

\* the record of a call: the function, the mutator's place in the chain,
\* whether it succeeded, whether the allocator was asked and refused, the
\* iterator returned, and for an insert its arguments and the root's bytes
\* before it
Call(op, k, ok, allocfail, ret, elem, key, atend, undo, roundtrip) ==
  [op |-> op, k |-> k, ok |-> ok, allocfail |-> allocfail, ret |-> ret,
   elem |-> elem, key |-> key, atend |-> atend, undo |-> undo,
   roundtrip |-> roundtrip]

NoCall == Call("none", 0, TRUE, FALSE, NoIter, NoElem, <<>>, FALSE, <<>>, FALSE)

\* what the caller noted of a child's element when it made the child: the
\* element's offset and key length, and the sizes of parent and child
NoSub == [off |-> 0, keylen |-> 0, psize |-> 0, csize |-> 0]

\* no mutator exists
InitMutator ==
  /\ heap = <<>>
  /\ muts = <<>>
  /\ subs = <<>>
  /\ lastcall = NoCall
  /\ nops = 0

InitView ==
  /\ \/ IsHdrBuffer(buf)
     \/ IsIterBuffer(buf)
     \/ IsLongBuffer(buf)
     \/ IsPointerBuffer(buf)
     \/ IsUnknownTagBuffer(buf)
     \/ IsPrefixedBuffer(buf)
     \/ IsFixedBuffer(buf)
  /\ view = NoView
  /\ it = NoIter
  /\ reads = {}
  /\ pc = "data"
  /\ InitValidator
  /\ InitMutator

ViewFromData ==
  /\ pc = "data"
  /\ view' = bson_view_from_data(buf, Len(buf))
  /\ reads' = view'.reads
  /\ pc' = IF view'.data = NULL THEN "rejected" ELSE "viewed"
  /\ UNCHANGED <<buf, it>>
  /\ UNCHANGED vvars
  /\ UNCHANGED mvars

Begin ==
  /\ pc = "viewed"
  /\ it' = bson_begin(buf, view)
  /\ reads' = reads \cup bson_begin_reads(buf, view)
  /\ pc' = "iter"
  /\ UNCHANGED <<buf, view>>
  /\ UNCHANGED vvars
  /\ UNCHANGED mvars

Next ==
  /\ pc = "iter"
  /\ ~bson_iterator_done(it)
  /\ IF bson_next_pre(buf, it)
     THEN /\ it' = bson_next(buf, it)
          /\ reads' = reads \cup bson_next_reads(buf, it)
          /\ pc' = "iter"
     ELSE /\ pc' = "undefined"
          /\ UNCHANGED <<it, reads>>
  /\ UNCHANGED <<buf, view>>
  /\ UNCHANGED vvars
  /\ UNCHANGED mvars

\* k.len == strlen (key) && memcmp (k.data, key, it._keylen) == 0
bson_key_eq(b, i, key) ==
  /\ i.keylen = Len(key)
  /\ \A k \in 1..i.keylen : At(b, i.ptr + k) = key[k]

RECURSIVE find_key_loop(_, _, _)

\* the loop of bson_find_key from iterator i; NoIter stands for a call of
\* bson_next that breaks what _bson_iterator_at assumes
find_key_loop(b, i, key) ==
  IF ~(i.rlen > 1) THEN i
  ELSE IF bson_key_eq(b, i, key) THEN i
  ELSE IF ~bson_next_pre(b, i) THEN NoIter
  ELSE find_key_loop(b, bson_next(b, i), key)

bson_find_key(b, v, key) == find_key_loop(b, bson_begin(b, v), key)

\* the keys looked for
FindKeys == {<<>>, <<1>>, <<255>>, <<1, 1>>}

FindKeyDone(key, r) ==
  /\ pc' = IF r = NoIter THEN "undefined" ELSE "found"
  /\ it' = r
  /\ lastcall' = Call("find_key", 0, r # NoIter, FALSE, r, NoElem, key,
                      FALSE, <<>>, FALSE)
  /\ UNCHANGED <<buf, view, reads, heap, muts, subs, nops>>
  /\ UNCHANGED vvars

FindKey ==
  /\ pc = "viewed"
  /\ \E key \in FindKeys : FindKeyDone(key, bson_find_key(buf, view, key))

\* the slice for no string: return (bson_view_utf8){NULL}
NoUtf8 == [data |-> NULL, len |-> 0]

\* len > it._rlen compares as uint32_t; (int32_t) len - 1 is the length
bson_iterator_utf8(b, i) ==
  IF bson_iterator_type(b, i) # BSON_TYPE_UTF8 THEN NoUtf8
  ELSE LET after_key == _bson_iterator_value_ptr(i)
           len == bson_read_uint32_le(b, after_key)
       IN IF WideGt(len, i.rlen) \/ WideLt(len, 1) THEN NoUtf8
          ELSE [data |-> after_key + 4, len |-> ToInt32(len) - 1]

ReadUtf8Done(r) ==
  /\ pc' = "read"
  /\ lastcall' = Call("utf8", 0, r.data # NULL, FALSE, it,
                      Elem("slice", <<r.data, r.len>>, <<>>, 0), <<>>,
                      bson_iterator_done(it), <<>>, FALSE)
  /\ UNCHANGED <<buf, view, it, reads, heap, muts, subs, nops>>
  /\ UNCHANGED vvars

\* bson_iterator_utf8 on a non-error iterator the caller got from bson_begin
\* or bson_next
ReadUtf8 ==
  /\ pc = "iter"
  /\ bson_get_error(it) = BSON_ITER_NO_ERROR
  /\ ReadUtf8Done(bson_iterator_utf8(buf, it))

NextView == ViewFromData \/ Begin \/ Next \/ FindKey \/ ReadUtf8

SpecView == InitView /\ [][NextView]_vars

\* the bytes bson_iterator_document views: from the value to the end of the
\* iterated document
bson_iterator_document_data(b, i) ==
  SubSeq(b, _bson_iterator_value_ptr(i) + 1, i.ptr + i.rlen)

\* bson_iterator_document as a view of bson_iterator_document_data
bson_iterator_document(b, i) ==
  IF bson_iterator_type(b, i) # BSON_TYPE_DOCUMENT
     /\ bson_iterator_type(b, i) # BSON_TYPE_ARRAY
  THEN NoView
  ELSE bson_view_from_data(bson_iterator_document_data(b, i),
                           Len(bson_iterator_document_data(b, i)))

---------------------------------------------------------------------------
(* _validate_document, bson_validate_untrusted *)

jumpsize_table(type) ==
  CASE type \in {0, 6, 10, 19, 20} -> 0
    [] type \in {1, 9, 17} -> 8
    [] type \in {2, 3, 4, 5, 13, 14, 15} -> -1
    [] type = 7 -> 12
    [] type = 8 -> 1
    [] type \in {11, 12} -> -2
    [] type = 16 -> 4
    [] type = 18 -> 16

jumpsize_table_size == 21

\* the position after the first zero byte in [cstring, end), or NULL
_find_after_cstring(b, cstring, end) ==
  LET zeros == {k \in cstring..(end - 1) : At(b, k) = 0}
  IN IF zeros = {} THEN NULL ELSE SetMin(zeros) + 1

_find_after_cstring_reads(b, cstring, end) ==
  IF _find_after_cstring(b, cstring, end) = NULL THEN cstring..(end - 1)
  ELSE cstring..(_find_after_cstring(b, cstring, end) - 1)

VReturn(r, rd) == [kind |-> "return", ret |-> r, iter |-> 0, sub_end |-> 0,
                   jump |-> 0, reads |-> rd]

VJump(iter, j, rd) == [kind |-> "jump", ret |-> 0, iter |-> iter,
                       sub_end |-> 0, jump |-> j, reads |-> rd]

VCall(iter, sub_end, j, rd) == [kind |-> "call", ret |-> 0, iter |-> iter,
                                sub_end |-> sub_end, jump |-> j, reads |-> rd]

\* "Prepare to jump": iter is at the element data after the key
validate_prepare_jump(b, type, iter, end) ==
  LET jump == jumpsize_table(type)
      len == bson_read_uint32_le(b, iter)
      scan1 == _find_after_cstring(b, iter, end)
      scan2 == _find_after_cstring(b, scan1, end)
  IN
  IF jump >= 0 THEN VJump(iter, jump, {})
  ELSE IF jump = -1 THEN
    IF end - iter < 4 THEN VReturn(BSONV_ITER_STOP_SHORT_READ, {})
    ELSE IF type # BSON_TYPE_DOCUMENT /\ type # BSON_TYPE_ARRAY THEN
      IF WideGt(len, end - iter)
      THEN VReturn(BSONV_ITER_STOP_SHORT_READ, iter..(iter + 3))
      ELSE VCall(iter, iter + WideInt(len), WideInt(len) + 4,
                 iter..(iter + 3))
    ELSE VJump(iter, ToInt32(len), iter..(iter + 3))
  ELSE IF type = BSON_TYPE_REGEX THEN
    IF scan1 = NULL
    THEN VReturn(BSONV_ITER_STOP_INVALID,
                 _find_after_cstring_reads(b, iter, end))
    ELSE IF scan2 = NULL
    THEN VReturn(BSONV_ITER_STOP_INVALID,
                 _find_after_cstring_reads(b, iter, end)
                 \cup _find_after_cstring_reads(b, scan1, end))
    ELSE VJump(iter, scan2 - iter, iter..(scan2 - 1))
  ELSE \* BSON_TYPE_DBPOINTER
    IF end - iter < 4 THEN VReturn(BSONV_ITER_STOP_SHORT_READ, {})
    ELSE IF len.hi = 65535 /\ len.lo > 65535 - 12
    THEN VReturn(BSONV_ITER_STOP_SHORT_READ, iter..(iter + 3))
    ELSE VJump(iter, ToInt32(WideAdd(len, 12)), iter..(iter + 3))

\* one pass through the body of the while loop, from a readable iter # end
validate_iteration(b, iter, end) ==
  LET type == At(b, iter)
      after == _find_after_cstring(b, iter, end)
      prep == validate_prepare_jump(b, type, after, end)
      keyreads == {iter} \cup _find_after_cstring_reads(b, iter, end)
  IN
  IF type = 0 THEN
    IF iter + 1 # end THEN VReturn(BSONV_ITER_STOP_INVALID_TYPE, {iter})
    ELSE VReturn(BSONV_ITER_STOP_NOT_DONE, {iter})
  ELSE IF type >= jumpsize_table_size
  THEN VReturn(BSONV_ITER_STOP_INVALID_TYPE, {iter})
  ELSE IF after = NULL THEN VReturn(BSONV_ITER_STOP_INVALID, keyreads)
  ELSE IF prep.kind = "jump" /\ end - prep.iter < prep.jump
  THEN VReturn(BSONV_ITER_STOP_SHORT_READ, keyreads \cup prep.reads)
  ELSE [prep EXCEPT !.reads = keyreads \cup prep.reads]

Frame(iter, end) == [iter |-> iter, end |-> end, val |-> iter, jump |-> 0]

Front(st) == SubSeq(st, 1, Len(st) - 1)

\* the stack of calls after the innermost call returns r: a non-zero result
\* is returned by every caller; after a zero result the caller makes its
\* jump over the value it had validated
validate_return(st, r) ==
  IF Len(st) = 1 \/ r # 0 THEN [stack |-> <<>>, res |-> r]
  ELSE LET caller == st[Len(st) - 1] IN
    IF caller.end - caller.val < caller.jump
    THEN [stack |-> <<>>, res |-> BSONV_ITER_STOP_SHORT_READ]
    ELSE [stack |-> [Front(st) EXCEPT ![Len(st) - 1] =
                       Frame(caller.val + caller.jump, caller.end)],
          res |-> NULL]

---------------------------------------------------------------------------
(* The validator run on an accepted view *)

\* bytes of the documents given to the validator
ValBytes == {0, 2, 3, 249, 254, 255}

IsValBuffer(b) ==
  \E n \in 5..MaxValBuf :
    \E body \in [1..(n - 5) -> ValBytes], last \in {0, 1} :
      b = <<n, 0, 0, 0>> \o body \o <<last>>

InitValidate ==
  /\ IsValBuffer(buf)
  /\ view = NoView
  /\ it = NoIter
  /\ reads = {}
  /\ pc = "data"
  /\ InitValidator
  /\ InitMutator

\* bson_validate_untrusted calls _validate_document on the whole view
ValidateUntrusted ==
  /\ pc = "viewed"
  /\ vstack' = <<Frame(view.data, view.data + bson_view_len(buf, view))>>
  /\ pc' = "validating"
  /\ UNCHANGED <<buf, view, it, reads, vres, vreads, vsteps>>
  /\ UNCHANGED mvars

ValidateFinish(r, rd) ==
  LET after == validate_return(vstack, r) IN
  /\ vstack' = after.stack
  /\ vres' = after.res
  /\ vreads' = vreads \cup rd
  /\ pc' = IF after.res = NULL THEN "validating" ELSE "validated"

\* the loop test and one pass through the loop body of the innermost call
ValidateStep ==
  /\ pc = "validating"
  /\ vsteps < MaxValidateSteps
  /\ LET top == vstack[Len(vstack)] IN
     IF top.iter = top.end
     THEN /\ ValidateFinish(BSONV_ITER_STOP_SHORT_READ, {})
          /\ UNCHANGED vsteps
     ELSE IF ~InBuf(buf, top.iter)
     THEN /\ pc' = "undefined"
          /\ vreads' = vreads \cup {top.iter}
          /\ vsteps' = vsteps + 1
          /\ UNCHANGED <<vstack, vres>>
     ELSE LET step == validate_iteration(buf, top.iter, top.end) IN
          /\ vsteps' = vsteps + 1
          /\ CASE step.kind = "return" -> ValidateFinish(step.ret, step.reads)
               [] step.kind = "jump" ->
                    /\ vstack' = [vstack EXCEPT ![Len(vstack)] =
                                    Frame(step.iter + step.jump, top.end)]
                    /\ vreads' = vreads \cup step.reads
                    /\ UNCHANGED <<vres, pc>>
               [] step.kind = "call" ->
                    /\ vstack' = Append(
                         [vstack EXCEPT ![Len(vstack)] =
                            [top EXCEPT !.val = step.iter,
                                        !.jump = step.jump]],
                         Frame(step.iter, step.sub_end))
                    /\ vreads' = vreads \cup step.reads
                    /\ UNCHANGED <<vres, pc>>
  /\ UNCHANGED <<buf, view, it, reads>>
  /\ UNCHANGED mvars

NextValidate == ViewFromData \/ ValidateUntrusted \/ ValidateStep

SpecValidate == InitValidate /\ [][NextValidate]_vars

---------------------------------------------------------------------------
(* Claims about the view and the iterator *)

\* the header of buf read independently of bson_read_uint32_le: the low 31
\* bits and the top bit
HdrLow31 ==
  IF Len(buf) < 4 THEN 0
  ELSE At(buf, 0) + 256 * At(buf, 1) + 65536 * At(buf, 2)
       + 16777216 * (At(buf, 3) % 128)

HdrTop == Len(buf) >= 4 /\ At(buf, 3) >= 128

ExpectedReason ==
  IF Len(buf) < 5 THEN BSON_VIEW_SHORT_READ
  ELSE IF (~HdrTop /\ HdrLow31 < 5) \/ (HdrTop /\ HdrLow31 > 0)
  THEN BSON_VIEW_INVALID_HEADER
  ELSE IF HdrTop \/ HdrLow31 > Len(buf) THEN BSON_VIEW_SHORT_READ
  ELSE IF buf[HdrLow31] # 0 THEN BSON_VIEW_INVALID_TERMINATOR
  ELSE BSON_VIEW_OKAY

\* C3: bson_view_from_data reports SHORT_READ for data_len < 5, else
\* INVALID_HEADER for L < 5 or L > 2^31, else SHORT_READ for L > data_len,
\* else INVALID_TERMINATOR for data[L-1] # 0, else OKAY; the view is null
\* exactly when the reason is not OKAY; a non-null view has
\* 5 <= L <= data_len and data[L-1] = 0; only bytes 0..3 and L-1 are read.
C3_ViewFromDataReasons ==
  pc # "data" =>
    /\ view.reason = ExpectedReason
    /\ (view.data = NULL) <=> (view.reason # BSON_VIEW_OKAY)
    /\ view.data # NULL =>
         /\ ~HdrTop /\ 5 <= HdrLow31 /\ HdrLow31 <= Len(buf)
         /\ buf[HdrLow31] = 0
    /\ view.reads \subseteq 0..(Len(buf) - 1)
    /\ view.reads \subseteq
         (0..3) \cup (IF ~HdrTop /\ HdrLow31 >= 5 THEN {HdrLow31 - 1} ELSE {})

\* a view is accepted although data_len is larger than the declared length
C3_Witness ==
  /\ pc = "viewed"
  /\ view.data # NULL
  /\ Len(buf) > HdrLow31
  /\ view.reads = (0..3) \cup {HdrLow31 - 1}

\* C2: a non-done, non-errored iterator from bson_begin or bson_next has
\* 1 + keylen + 1 + value_size < _rlen, its key is NUL-terminated inside the
\* document, it ends where the document ends, and every byte read to produce
\* it lies inside the viewed document.
C2_IteratorInBounds ==
  pc = "iter" =>
    /\ reads \subseteq 0..(HdrLow31 - 1)
    /\ it.rlen > 1 =>
         LET value_size ==
               _bson_valsize(buf, bson_iterator_type(buf, it),
                             _bson_iterator_value_ptr(it), INT32_MAX)
         IN /\ it.ptr >= 4
            /\ it.keylen >= 0
            /\ \A k \in 0..(it.keylen - 1) : At(buf, it.ptr + 1 + k) # 0
            /\ At(buf, it.ptr + 1 + it.keylen) = 0
            /\ value_size >= 0
            /\ 1 + it.keylen + 1 + value_size < it.rlen
            /\ it.ptr + it.rlen = HdrLow31

\* bson_next has produced a valid iterator at a length-prefixed or regex
\* element that is not the first element
C2_Witness ==
  /\ pc = "iter"
  /\ it.rlen > 1
  /\ it.ptr > 4
  /\ bson_iterator_type(buf, it) \in {BSON_TYPE_UTF8, BSON_TYPE_REGEX}

---------------------------------------------------------------------------
(* Claims about the validator *)

RECURSIVE IterationReachesEnd(_, _)
RECURSIVE DocumentIterates(_)

\* lazy iteration from iterator i reaches the end of the document without
\* an error, descending into every document and array element
IterationReachesEnd(b, i) ==
  IF bson_iterator_done(i) THEN bson_get_error(i) = BSON_ITER_NO_ERROR
  ELSE /\ bson_iterator_type(b, i) \in {BSON_TYPE_DOCUMENT, BSON_TYPE_ARRAY}
            => /\ bson_iterator_document(b, i).data # NULL
               /\ DocumentIterates(
                    SubSeq(bson_iterator_document_data(b, i), 1,
                           bson_view_len(bson_iterator_document_data(b, i),
                                         bson_iterator_document(b, i))))
       /\ bson_next_pre(b, i)
       /\ IterationReachesEnd(b, bson_next(b, i))

DocumentIterates(b) ==
  /\ bson_view_from_data(b, Len(b)).data # NULL
  /\ IterationReachesEnd(b, bson_begin(b, bson_view_from_data(b, Len(b))))

\* C4: bson_validate_untrusted succeeds exactly when lazy iteration of the
\* same bytes, descending into documents and arrays, reaches the end without
\* an error.
C4_ValidatorAgreesWithIteration ==
  pc = "validated" =>
    ((vres = BSONV_ITER_STOP_NOT_DONE) <=> DocumentIterates(buf))

\* C5: for every 32-bit length prefix, 2^31 and above included, the validator
\* reads only bytes of [iter, end) and its cursor never moves before the
\* start or past the end of the range it was given.
C5_ValidatorStaysInRange ==
  pc \in {"validating", "validated", "undefined"} =>
    /\ vreads \subseteq 0..(HdrLow31 - 1)
    /\ \A k \in DOMAIN vstack :
         vstack[k].iter >= 0 /\ vstack[k].iter <= HdrLow31

\* C6: every pass through the validator's loop leaves the cursor of that call
\* at least one byte further on, so the validator terminates.
C6_ValidatorMovesForward ==
  [][(pc = "validating" /\ pc' = "validating" /\ Len(vstack') <= Len(vstack))
       => vstack'[Len(vstack')].iter > vstack[Len(vstack')].iter]_vars

---------------------------------------------------------------------------
(* The mutator: memory, capacity, _bson_splice_region *)

\* a byte of the allocation that has not been written since the allocator
\* returned it: its value is indeterminate
Uninit == 256

\* the marker byte 'X' _bson_splice_region puts in the opened gap
FillX == 88

\* the extra bytes a growing root asks for
splice_slack == 1024

\* every offset of S is inside the allocation and holds a written byte
Defined(b, S) == \A o \in S : InBuf(b, o) /\ At(b, o) # Uninit

_bson_write_uint32le(v) ==
  <<v % 256, (v \div 256) % 256, (v \div 65536) % 256,
    (v \div 16777216) % 256>>

\* the bytes stored at off, off + 1, ...
WriteAt(b, off, bytes) ==
  [i \in 1..Len(b) |->
     IF i > off /\ i <= off + Len(bytes) THEN bytes[i - off] ELSE b[i]]

memmove(b, dest, from, n) ==
  [i \in 1..Len(b) |->
     IF i > dest /\ i <= dest + n THEN b[i - dest + from] ELSE b[i]]

memset(b, dest, v, n) ==
  [i \in 1..Len(b) |-> IF i > dest /\ i <= dest + n THEN v ELSE b[i]]

\* bson_size / bson_ssize of the document a mutator refers to: its header
bson_size(b, d) == WideInt(bson_read_uint32_le(b, d.data))

\* bson_end(doc) may be called: the byte it reads is written and is the
\* terminator
EndDefined(b, d) ==
  /\ Defined(b, d.data..(d.data + 3))
  /\ bson_size(b, d) >= 5
  /\ Defined(b, {d.data + bson_size(b, d) - 1})
  /\ _bson_iterator_at_pre(b, d.data + bson_size(b, d) - 1, 1)

RECURSIVE bson_capacity(_, _, _)

\* bson_capacity that takes off the bytes in front of the child only
bson_capacity_before_only(b, ms, k) ==
  IF ms[k].cap < 0 THEN bson_capacity(b, ms, k - 1) - (-ms[k].cap)
  ELSE ms[k].cap

\* ms is the chain of mutators, the root first; ms[k] for k > 1 is the child
\* of ms[k - 1] and holds the negated element offset in cap
bson_capacity(b, ms, k) ==
  IF ms[k].cap < 0 THEN
    LET bytes_before == -ms[k].cap
        bytes_until_parent_end == bson_size(b, ms[k - 1]) - bytes_before
        bytes_after == bytes_until_parent_end - bson_size(b, ms[k])
        bytes_other == bytes_before + bytes_after
    IN bson_capacity(b, ms, k - 1) - bytes_other
  ELSE ms[k].cap

\* the outcome of a step that may fail: ok, the allocation, the mutators,
\* a pointer, and whether the step had undefined behaviour
Outcome(ok, b, ms, ptr, ub) ==
  [ok |-> ok, heap |-> b, muts |-> ms, ptr |-> ptr, ub |-> ub]

\* the default allocator's realloc: the old bytes, then indeterminate ones
bson_mut_default_reallocate(b, request_size) ==
  IF request_size <= Len(b) THEN SubSeq(b, 1, request_size)
  ELSE b \o [i \in 1..(request_size - Len(b)) |-> Uninit]

_bson_mut_realloc(b, ms, new_size, alloc_ok) ==
  IF new_size > INT32_MAX \/ ~alloc_ok THEN Outcome(FALSE, b, ms, NULL, FALSE)
  ELSE Outcome(TRUE, bson_mut_default_reallocate(b, new_size),
               [ms EXCEPT ![1] = [data |-> 0, cap |-> new_size]], 0, FALSE)

\* bson_reserve without the test of the capacity
bson_reserve_always(b, ms, size, alloc_ok) ==
  LET r == _bson_mut_realloc(b, ms, size, alloc_ok) IN
    IF ~r.ok THEN Outcome(FALSE, b, ms, -1, FALSE)
    ELSE Outcome(TRUE, r.heap, r.muts, r.muts[1].cap, FALSE)

\* ptr of the outcome is the value bson_reserve returns
bson_reserve(b, ms, size, alloc_ok) ==
  IF bson_capacity(b, ms, 1) >= size
  THEN Outcome(TRUE, b, ms, bson_capacity(b, ms, 1), FALSE)
  ELSE LET r == _bson_mut_realloc(b, ms, size, alloc_ok) IN
    IF ~r.ok THEN Outcome(FALSE, b, ms, -1, FALSE)
    ELSE Outcome(TRUE, r.heap, r.muts, r.muts[1].cap, FALSE)

\* _bson_i32_iadd(&new_doc_size, 1024): the sum is stored in new_doc_size
_bson_i32_iadd(value, n) ==
  IF value > INT32_MAX - n THEN [ok |-> FALSE, value |-> value]
  ELSE [ok |-> TRUE, value |-> value + n]

\* the root's part of _bson_splice_region once the buffer is large enough:
\* shift the tail, mark the gap, write the header
splice_root_move(b, ms, position, n_delete, n_insert, new_doc_size) ==
  LET doc_end == ms[1].data + bson_size(b, ms[1])
      move_dest == position + n_insert
      move_from == position + n_delete
      data_remain == doc_end - move_from
  IN IF data_remain < 0 \/ doc_end > Len(b)
        \/ move_dest + data_remain > Len(b)
     THEN Outcome(TRUE, b, ms, position, TRUE)
     ELSE Outcome(TRUE,
            WriteAt(memset(memmove(b, move_dest, move_from, data_remain),
                           position, FillX, n_insert),
                    ms[1].data, _bson_write_uint32le(new_doc_size)),
            ms, position, FALSE)

\* child mode after the parent's splice returned up: give up if it failed,
\* else recompute the own data pointer and write the own header
splice_child_done(ms, k, new_doc_size, up) ==
  IF ~up.ok \/ up.ub THEN up
  ELSE Outcome(TRUE,
               WriteAt(up.heap,
                       up.muts[k - 1].data + (ms[k].data - ms[k - 1].data),
                       _bson_write_uint32le(new_doc_size)),
               [up.muts EXCEPT
                  ![k].data = up.muts[k - 1].data
                              + (ms[k].data - ms[k - 1].data)],
               up.ptr, FALSE)

\* a root that shifts the tail without asking for a larger buffer first
splice_root_grow_in_place(b, ms, pos_offset, n_delete, n_insert, grown, rs) ==
  splice_root_move(b, ms, ms[1].data + pos_offset, n_delete, n_insert,
                   grown.value)

\* root mode when the new size exceeds the capacity: grown is the result of
\* _bson_i32_iadd(&new_doc_size, 1024) and rs that of bson_reserve
splice_root_grow(b, ms, pos_offset, n_delete, n_insert, grown, rs) ==
  IF ~grown.ok \/ rs.ptr < 0 THEN Outcome(FALSE, b, ms, NULL, FALSE)
  ELSE splice_root_move(rs.heap, rs.muts, rs.muts[1].data + pos_offset,
                        n_delete, n_insert, grown.value)

RECURSIVE _bson_splice_region(_, _, _, _, _, _, _)

\* splice for mutator ms[k]; alloc_ok is what the allocator will answer if
\* the root has to grow.  ptr of the outcome is the returned position (NULL
\* on failure).  The sum with the slack stays in new_doc_size, which is then
\* written as the header.
_bson_splice_region(b, ms, k, position, n_delete, n_insert, alloc_ok) ==
  LET new_doc_size == bson_size(b, ms[k]) + (n_insert - n_delete) IN
  IF new_doc_size > INT32_MAX THEN Outcome(FALSE, b, ms, NULL, FALSE)
  ELSE IF ms[k].cap < 0 THEN
    splice_child_done(ms, k, new_doc_size,
                      _bson_splice_region(b, ms, k - 1, position, n_delete,
                                          n_insert, alloc_ok))
  ELSE IF new_doc_size > bson_capacity(b, ms, k) THEN
    splice_root_grow(b, ms, position - ms[k].data, n_delete, n_insert,
                     _bson_i32_iadd(new_doc_size, splice_slack),
                     bson_reserve(b, ms,
                                  _bson_i32_iadd(new_doc_size,
                                                 splice_slack).value,
                                  alloc_ok))
  ELSE splice_root_move(b, ms, position, n_delete, n_insert, new_doc_size)

\* the result of an insert or erase: the allocation, the mutators, the
\* iterator returned (pos), and for the element preparation the value pointer
Edit(ok, b, ms, pos, out, ub) ==
  [ok |-> ok, heap |-> b, muts |-> ms, pos |-> pos, out |-> out, ub |-> ub]

\* the iterator at the element inserted at pos_offset of document d
inserted_at(b, d, pos_offset, keylen) ==
  [ptr |-> d.data + pos_offset, keylen |-> keylen,
   rlen |-> bson_size(b, d) - pos_offset]

\* a variant that leaves the caller's iterator as it was when the splice fails
prep_after_splice_keep(b, ms, k, pos, type, key, datasize, sp) ==
  IF datasize + (2 + Len(key)) > INT32_MAX \/ ~sp.ok
  THEN Edit(FALSE, b, ms, pos, NULL, FALSE)
  ELSE IF sp.ub THEN Edit(TRUE, b, ms, pos, NULL, TRUE)
  ELSE Edit(TRUE, WriteAt(sp.heap, sp.ptr, <<type>> \o key \o <<0>>), sp.muts,
            inserted_at(sp.heap, sp.muts[k], pos.ptr - ms[k].data, Len(key)),
            sp.ptr + Len(key) + 2, FALSE)

\* _bson_prep_element_region once _bson_splice_region returned sp: on
\* failure the iterator becomes bson_end, else tag, key and NUL are written
\* and the iterator refers to the new element
prep_after_splice(b, ms, k, pos, type, key, datasize, sp) ==
  IF datasize + (2 + Len(key)) > INT32_MAX \/ ~sp.ok
  THEN Edit(FALSE, b, ms, bson_end(b, ms[k]), NULL, ~EndDefined(b, ms[k]))
  ELSE IF sp.ub THEN Edit(TRUE, b, ms, pos, NULL, TRUE)
  ELSE Edit(TRUE, WriteAt(sp.heap, sp.ptr, <<type>> \o key \o <<0>>), sp.muts,
            inserted_at(sp.heap, sp.muts[k], pos.ptr - ms[k].data, Len(key)),
            sp.ptr + Len(key) + 2, FALSE)

_bson_prep_element_region(b, ms, k, pos, type, key, datasize, alloc_ok) ==
  prep_after_splice(b, ms, k, pos, type, key, datasize,
                    _bson_splice_region(b, ms, k, pos.ptr, 0,
                                        datasize + (2 + Len(key)), alloc_ok))

---------------------------------------------------------------------------
(* The mutator: the insert functions *)

\* what an insert function asks for and writes: the type tag, whether it
\* returns bson_end before touching the document, the value size it asks
\* _bson_prep_element_region for, the bytes it then writes at the value
\* pointer, and whether that write has undefined behaviour by itself
Plan(type, reject, datasize, bytes, ub) ==
  [type |-> type, reject |-> reject, datasize |-> datasize, bytes |-> bytes,
   ub |-> ub]

bson_insert_null == Plan(BSON_TYPE_NULL, FALSE, 0, <<>>, FALSE)

bson_insert_bool(v) == Plan(BSON_TYPE_BOOL, FALSE, 1, <<v>>, FALSE)

bson_insert_int32(value) ==
  Plan(BSON_TYPE_INT32, FALSE, 4, _bson_write_uint32le(value), FALSE)

bson_insert_int64(value) ==
  Plan(BSON_TYPE_INT64, FALSE, 8,
       _bson_write_uint32le(value) \o _bson_write_uint32le(0), FALSE)

\* string is the caller's C string without its NUL; string_length is the
\* length argument (-1 from bson_insert_code and bson_insert_symbol)
_bson_insert_stringlike(realtype, string, string_length) ==
  LET string_size == string_length + 1
      el_size == string_size + 4
      ncopy == string_size - 1
  IN IF string_length = INT32_MAX \/ string_size > INT32_MAX - 4
     THEN Plan(realtype, TRUE, 0, <<>>, FALSE)
     ELSE IF ncopy < 0 \/ ncopy > Len(string) + 1
     THEN Plan(realtype, FALSE, el_size, _bson_write_uint32le(string_size),
               TRUE)
     ELSE Plan(realtype, FALSE, el_size,
               _bson_write_uint32le(string_size)
               \o SubSeq(string \o <<0>>, 1, ncopy) \o <<0>>, FALSE)

bson_insert_utf8(utf8, utf8_length) ==
  _bson_insert_stringlike(BSON_TYPE_UTF8, utf8, utf8_length)

bson_insert_code(code) == _bson_insert_stringlike(BSON_TYPE_CODE, code, -1)

bson_insert_symbol(sym) == _bson_insert_stringlike(BSON_TYPE_SYMBOL, sym, -1)

\* insert_doc is the viewed document's bytes, or <<>> for a null view
bson_insert_doc(insert_doc) ==
  IF insert_doc = <<>>
  THEN Plan(BSON_TYPE_DOCUMENT, FALSE, 5, <<5, 0, 0, 0, 0>>, FALSE)
  ELSE Plan(BSON_TYPE_DOCUMENT, FALSE, Len(insert_doc), insert_doc, FALSE)

bson_insert_array == Plan(BSON_TYPE_ARRAY, FALSE, 5, <<5, 0, 0, 0, 0>>, FALSE)

\* after is what lies in the caller's memory behind bin.data: the copy of
\* size.value bytes reads five bytes of it
bson_insert_binary(subtype, data, after) ==
  LET size == Len(data) + 5 IN
  Plan(BSON_TYPE_BINARY, FALSE, size,
       _bson_write_uint32le(size) \o <<subtype>>
       \o SubSeq(data \o after, 1, size), FALSE)

\* options = <<0>> stands for rx.options = NULL
bson_insert_regex(regex, options) ==
  LET rx_len == Len(regex)
      size == rx_len + (rx_len + 2)
  IN Plan(BSON_TYPE_REGEX, size < 2, size,
          regex \o <<0>> \o (IF options = <<0>> THEN <<>> ELSE options)
          \o <<0>>, FALSE)

bson_insert_dbpointer(collection, object_id) ==
  LET coll_string_size == Len(collection) + 1
      el_size == (12 + 4) + coll_string_size
  IN Plan(BSON_TYPE_DBPOINTER, FALSE, el_size,
          _bson_write_uint32le(coll_string_size) \o collection \o <<0>>
          \o object_id, FALSE)

bson_insert_code_with_scope(code, scope) ==
  LET code_size == Len(code) + 1
      el_size == code_size + (Len(scope) + 4)
  IN Plan(BSON_TYPE_CODEWSCOPE, FALSE, el_size,
          _bson_write_uint32le(el_size) \o _bson_write_uint32le(code_size)
          \o code \o scope, FALSE)

\* the part of an insert function after _bson_prep_element_region returned
\* r: the value bytes are written at the value pointer
insert_value(plan, r) ==
  IF ~r.ok \/ r.ub THEN r
  ELSE IF plan.ub \/ r.out + Len(plan.bytes) > Len(r.heap)
  THEN [r EXCEPT !.ub = TRUE]
  ELSE [r EXCEPT !.heap = WriteAt(r.heap, r.out, plan.bytes)]

\* an insert function run on mutator ms[k] at iterator pos
bson_insert(b, ms, k, pos, key, plan, alloc_ok) ==
  IF plan.reject
  THEN Edit(FALSE, b, ms, bson_end(b, ms[k]), NULL, ~EndDefined(b, ms[k]))
  ELSE insert_value(plan,
                    _bson_prep_element_region(b, ms, k, pos, plan.type, key,
                                              plan.datasize, alloc_ok))

---------------------------------------------------------------------------
(* The mutator: erase, child mutators, construction *)

\* the bytes of the element at a valid iterator: tag, key, NUL and value
bson_iterator_data_size(b, i) ==
  (1 + i.keylen + 1) +
  _bson_valsize(b, bson_iterator_type(b, i), _bson_iterator_value_ptr(i),
                INT32_MAX)

\* bson_next(i) may be called and reads written bytes only
NextDefined(b, i) ==
  /\ i.ptr # NULL
  /\ ~bson_iterator_done(i)
  /\ Defined(b, {i.ptr})
  /\ Defined(b, bson_next_reads(b, i))
  /\ bson_next_pre(b, i)

RECURSIVE erase_del_size(_, _, _)

\* the loop of bson_erase_range: the sum of the element sizes from it up to
\* last, or NULL when the loop calls bson_next where it may not
erase_del_size(b, i, last_) ==
  IF bson_iterator_eq(i, last_) THEN 0
  ELSE IF ~NextDefined(b, i) THEN NULL
  ELSE LET rest == erase_del_size(b, bson_next(b, i), last_) IN
    IF rest = NULL THEN NULL ELSE bson_iterator_data_size(b, i) + rest

\* bson_erase_range once the loop gave del_size and the splice returned sp:
\* last with its pointer moved to the spliced position
erase_after_splice(b, ms, last_, del_size, sp) ==
  IF del_size = NULL \/ ~sp.ok \/ sp.ub THEN Edit(TRUE, b, ms, last_, NULL, TRUE)
  ELSE Edit(TRUE, sp.heap, sp.muts, [last_ EXCEPT !.ptr = sp.ptr], NULL, FALSE)

bson_erase_range(b, ms, k, first, last_) ==
  erase_after_splice(b, ms, last_, erase_del_size(b, first, last_),
                     _bson_splice_region(b, ms, k, first.ptr,
                                         erase_del_size(b, first, last_), 0,
                                         TRUE))

bson_erase(b, ms, k, pos) ==
  IF ~NextDefined(b, pos) THEN Edit(TRUE, b, ms, pos, NULL, TRUE)
  ELSE bson_erase_range(b, ms, k, pos, bson_next(b, pos))

\* bson_mut_subdocument that does not look at the element's type
bson_mut_subdocument_any(b, parent, subdoc_iter) ==
  LET elem_offset == subdoc_iter.ptr - parent.data IN
  [data |-> parent.data + elem_offset + subdoc_iter.keylen + 2,
   cap |-> -elem_offset]

\* the child mutator for the document or array element at subdoc_iter, the
\* null mutator (bson_mut ret = {0}) for any other element
bson_mut_subdocument(b, parent, subdoc_iter) ==
  IF /\ bson_iterator_type(b, subdoc_iter) # BSON_TYPE_DOCUMENT
     /\ bson_iterator_type(b, subdoc_iter) # BSON_TYPE_ARRAY
  THEN [data |-> NULL, cap |-> 0]
  ELSE LET elem_offset == subdoc_iter.ptr - parent.data IN
    [data |-> parent.data + elem_offset + subdoc_iter.keylen + 2,
     cap |-> -elem_offset]

bson_parent_iterator(b, ms, k) ==
  LET par == ms[k - 1]
      ptr == par.data + (-ms[k].cap)
      offset == ptr - par.data
  IN [ptr |-> ptr, keylen |-> ms[k].data - ptr - 2,
      rlen |-> bson_size(b, par) - offset]

\* bson_mut_new_ex with the default allocator: the storage is zeroed and
\* holds an empty document.  bson_reserve reports a failed allocation as -1,
\* which the test !bson_reserve(...) does not catch: the writes then go
\* through a null pointer.
bson_mut_new_ex(reserve, alloc_ok) ==
  LET want == IF reserve < 5 THEN 5 ELSE reserve
      r == bson_reserve(<<>>, <<[data |-> NULL, cap |-> 0]>>, want, alloc_ok)
  IN IF r.ptr = 0 THEN Outcome(FALSE, <<>>, r.muts, NULL, FALSE)
     ELSE IF ~r.ok THEN Outcome(FALSE, <<>>, r.muts, NULL, TRUE)
     ELSE Outcome(TRUE, WriteAt(memset(r.heap, 0, 0, r.muts[1].cap), 0, <<5>>),
                  r.muts, 0, FALSE)

\* bson_begin(doc) may be called and reads written bytes only
BeginDefined(b, d) ==
  /\ Defined(b, d.data..(d.data + 3))
  /\ bson_size(b, d) >= 5
  /\ _bson_iterator_at_pre(b, d.data + 4, bson_size(b, d) - 4)
  /\ Defined(b, bson_begin_reads(b, d))

RECURSIVE WalkFrom(_, _, _)

\* the iterators a caller gets from i with at most n calls of bson_next
WalkFrom(b, i, n) ==
  IF i.ptr = NULL THEN {}
  ELSE {i} \cup (IF n = 0 \/ ~NextDefined(b, i) THEN {}
                 ELSE WalkFrom(b, bson_next(b, i), n - 1))

\* the positions in document d a caller can hold: from bson_begin by
\* bson_next, which reaches bson_end
Positions(b, d) ==
  IF BeginDefined(b, d) THEN WalkFrom(b, bson_begin(b, d), MaxWalk) ELSE {}

---------------------------------------------------------------------------
(* The mutator: callers *)

\* keys given to the insert functions: the empty key and "a"
Keys == {<<>>, <<97>>}

\* the insert function called for an element
PlanOf(e) ==
  CASE e[1] = "null" -> bson_insert_null
    [] e[1] = "bool" -> bson_insert_bool(e[4])
    [] e[1] = "int32" -> bson_insert_int32(e[4])
    [] e[1] = "int64" -> bson_insert_int64(e[4])
    [] e[1] = "utf8" -> bson_insert_utf8(e[2], e[4])
    [] e[1] = "code" -> bson_insert_code(e[2])
    [] e[1] = "symbol" -> bson_insert_symbol(e[2])
    [] e[1] = "doc" -> bson_insert_doc(e[2])
    [] e[1] = "array" -> bson_insert_array
    [] e[1] = "binary" -> bson_insert_binary(e[4], e[2], e[3])
    [] e[1] = "regex" -> bson_insert_regex(e[2], e[3])
    [] e[1] = "dbpointer" -> bson_insert_dbpointer(e[2], e[3])
    [] e[1] = "code_with_scope" -> bson_insert_code_with_scope(e[2], e[3])

\* the root's document bytes
RootBytes(b, ms) ==
  IF Defined(b, 0..3) /\ bson_size(b, ms[1]) <= Len(b)
  THEN SubSeq(b, 1, bson_size(b, ms[1])) ELSE <<>>

\* a successful bson_mut_new_ex(NULL, reserve)
InitMut ==
  /\ buf = <<>>
  /\ view = NoView
  /\ it = NoIter
  /\ reads = {}
  /\ pc = "mut"
  /\ InitValidator
  /\ \E reserve \in {0, BigReserve} :
       /\ bson_mut_new_ex(reserve, TRUE).ok
       /\ heap = bson_mut_new_ex(reserve, TRUE).heap
       /\ muts = bson_mut_new_ex(reserve, TRUE).muts
  /\ subs = <<NoSub>>
  /\ lastcall = NoCall
  /\ nops = 0

\* the state after a call on muts[k] with result r: the children of muts[k]
\* are not used again after a successful edit of it
Finish(k, r, c) ==
  /\ nops' = nops + 1
  /\ lastcall' = c
  /\ IF r.ub
     THEN /\ pc' = "undefined"
          /\ UNCHANGED <<heap, muts, subs>>
     ELSE /\ pc' = pc
          /\ heap' = r.heap
          /\ muts' = IF r.ok THEN SubSeq(r.muts, 1, k) ELSE r.muts
          /\ subs' = IF r.ok THEN SubSeq(subs, 1, k) ELSE subs
  /\ UNCHANGED <<buf, view, it, reads>>
  /\ UNCHANGED vvars

\* the state after an insert returned r; other is what it would have
\* returned had the allocator answered otherwise
InsertDone(k, pos, e, key, alloc_ok, r, other) ==
  Finish(k, r,
         Call("insert", k, r.ok /\ ~r.ub, r # other /\ ~alloc_ok, r.pos, e,
              key, bson_iterator_done(pos), RootBytes(heap, muts), FALSE))

\* one of the insert functions for the elements of E, at a position the
\* caller found by iterating muts[k]; the allocator answers alloc_ok if asked
Insert(E) ==
  /\ pc = "mut"
  /\ nops < MaxOps
  /\ \E k \in 1..Len(muts) :
       \E pos \in Positions(heap, muts[k]), e \in E, key \in Keys,
          alloc_ok \in BOOLEAN :
         InsertDone(k, pos, e, key, alloc_ok,
                    bson_insert(heap, muts, k, pos, key, PlanOf(e), alloc_ok),
                    bson_insert(heap, muts, k, pos, key, PlanOf(e),
                                ~alloc_ok))

\* bson_insert_null, bson_insert_bool, bson_insert_int32, bson_insert_int64
InsertFixed ==
  Insert({Elem("null", <<>>, <<>>, 0), Elem("bool", <<>>, <<>>, 1),
          Elem("int32", <<>>, <<>>, 1), Elem("int64", <<>>, <<>>, 1)})

\* bson_insert_utf8 (e[4] is the length argument, once the largest int32),
\* bson_insert_code and bson_insert_symbol
InsertString ==
  Insert({Elem("utf8", <<>>, <<>>, 0), Elem("utf8", <<98>>, <<>>, 1),
          Elem("utf8", <<98>>, <<>>, INT32_MAX),
          Elem("code", <<98>>, <<>>, 0), Elem("symbol", <<98>>, <<>>, 0)})

\* bson_insert_doc of a null view and of the document {"a": null}, and
\* bson_insert_array
InsertDocument ==
  Insert({Elem("doc", <<>>, <<>>, 0),
          Elem("doc", <<8, 0, 0, 0, 10, 97, 0, 0>>, <<>>, 0),
          Elem("array", <<>>, <<>>, 0)})

\* bson_insert_binary of one byte of data of subtype 0; e[3] is the
\* caller's memory behind the data
InsertBinary ==
  Insert({Elem("binary", <<7>>, <<0, 0, 0, 0, 0>>, 0),
          Elem("binary", <<7>>, <<1, 1, 1, 1, 1>>, 0)})

\* bson_insert_regex of /a/i, of /a/ with NULL options, and of //i
InsertRegex ==
  Insert({Elem("regex", <<97>>, <<105>>, 0), Elem("regex", <<97>>, <<0>>, 0),
          Elem("regex", <<>>, <<105>>, 0)})

\* bson_insert_dbpointer of collection "c" and an object id
InsertDbPointer ==
  Insert({Elem("dbpointer", <<99>>,
               <<1, 2, 3, 4, 5, 6, 7, 8, 9, 10, 11, 12>>, 0)})

\* bson_insert_code_with_scope of code "c" and an empty scope document
InsertCodeWithScope ==
  Insert({Elem("code_with_scope", <<99>>, <<5, 0, 0, 0, 0>>, 0)})

\* the iterator the last insert returned, if it succeeded on muts[k]
Returned(k) ==
  IF lastcall.op = "insert" /\ lastcall.ok /\ lastcall.k = k
  THEN {lastcall.ret} ELSE {}

\* the state after an erase on muts[k] returned r; exact tells that it
\* erased just the element the insert before it returned
EraseDone(op, k, r, exact) ==
  Finish(k, r,
         Call(op, k, ~r.ub, FALSE, r.pos, NoElem, <<>>, FALSE,
              IF exact THEN lastcall.undo ELSE <<>>, exact))

\* bson_erase at an element the caller found by iterating muts[k], or at the
\* iterator the insert before it returned
Erase ==
  /\ pc = "mut"
  /\ nops < MaxOps
  /\ \E k \in 1..Len(muts) :
       \E pos \in {p \in Positions(heap, muts[k]) : ~bson_iterator_done(p)}
                  \cup Returned(k) :
         EraseDone("erase", k, bson_erase(heap, muts, k, pos),
                   pos \in Returned(k))

\* bson_erase_range over elements the caller found by iterating muts[k]
EraseRange ==
  /\ pc = "mut"
  /\ nops < MaxOps
  /\ \E k \in 1..Len(muts) :
       \E first \in Positions(heap, muts[k]) :
         \E last_ \in WalkFrom(heap, first, MaxWalk) :
           EraseDone("erase_range", k,
                     bson_erase_range(heap, muts, k, first, last_),
                     /\ first \in Returned(k)
                     /\ NextDefined(heap, first)
                     /\ last_ = bson_next(heap, first))

\* the state after bson_mut_subdocument(&muts[k], pos) returned c: e[2] of
\* the call's element holds c; a null mutator is no child
SubdocumentDone(k, pos, c) ==
  /\ muts' = IF c.data = NULL THEN muts ELSE Append(SubSeq(muts, 1, k), c)
  /\ subs' = IF c.data = NULL THEN subs
             ELSE Append(SubSeq(subs, 1, k),
                         [off |-> pos.ptr - muts[k].data,
                          keylen |-> pos.keylen,
                          psize |-> bson_size(heap, muts[k]),
                          csize |-> bson_size(heap, c)])
  /\ lastcall' = Call("subdocument", k, c.data # NULL, FALSE, pos,
                      Elem("mut", <<c.data, c.cap>>, <<>>, 0), <<>>,
                      bson_iterator_done(pos), <<>>, FALSE)
  /\ UNCHANGED <<heap, nops, pc, buf, view, it, reads>>
  /\ UNCHANGED vvars

\* bson_mut_subdocument at a position the caller found by iterating muts[k]
Subdocument ==
  /\ pc = "mut"
  /\ \E k \in 1..Len(muts) :
       /\ k < MaxDepth
       /\ \E pos \in Positions(heap, muts[k]) :
            /\ Defined(heap, {pos.ptr})
            /\ SubdocumentDone(k, pos,
                               bson_mut_subdocument(heap, muts[k], pos))

NextMut ==
  \/ InsertFixed
  \/ InsertString
  \/ InsertDocument
  \/ InsertBinary
  \/ InsertRegex
  \/ InsertDbPointer
  \/ InsertCodeWithScope
  \/ Erase
  \/ EraseRange
  \/ Subdocument

SpecMut == InitMut /\ [][NextMut]_vars

---------------------------------------------------------------------------
(* The mutator: construction and bson_reserve *)

\* the sizes asked of bson_mut_new_ex
NewReserves == {0, 5, 6, BigReserve}

\* no mutator yet: the caller is about to call bson_mut_new_ex
InitNew ==
  /\ buf = <<>>
  /\ view = NoView
  /\ it = NoIter
  /\ reads = {}
  /\ pc = "new"
  /\ InitValidator
  /\ InitMutator

\* the state after bson_mut_new_ex(NULL, reserve) returned r
NewDone(reserve, alloc_ok, r) ==
  /\ pc' = IF r.ub THEN "undefined" ELSE "mut"
  /\ heap' = r.heap
  /\ muts' = r.muts
  /\ subs' = <<NoSub>>
  /\ lastcall' = Call("new_ex", 1, r.ok, ~alloc_ok, NoIter,
                      Elem("reserve", <<>>, <<>>, reserve), <<>>, FALSE,
                      <<>>, FALSE)
  /\ UNCHANGED <<nops, buf, view, it, reads>>
  /\ UNCHANGED vvars

\* bson_mut_new_ex; the allocator answers alloc_ok
New ==
  /\ pc = "new"
  /\ \E reserve \in NewReserves, alloc_ok \in BOOLEAN :
       NewDone(reserve, alloc_ok, bson_mut_new_ex(reserve, alloc_ok))

\* the sizes asked of bson_reserve, as uint32_t: 0, 6, 40 and 2^31
ReserveSizes ==
  {[hi |-> 0, lo |-> 0], [hi |-> 0, lo |-> 6], [hi |-> 0, lo |-> 40],
   [hi |-> 32768, lo |-> 0]}

\* bson_reserve with its uint32_t argument: a size above INT32_MAX is above
\* every capacity, and _bson_mut_realloc refuses it before it asks the
\* allocator
bson_reserve_u32(b, ms, size, alloc_ok) ==
  IF size.hi > 32767 THEN Outcome(FALSE, b, ms, -1, FALSE)
  ELSE bson_reserve(b, ms, WideInt(size), alloc_ok)

\* the state after bson_reserve(&root, size) returned r: e[2] of the call's
\* element is the size, e[4] the value returned; the children of the root
\* are not used again once it was reallocated
ReserveDone(size, alloc_ok, r) ==
  /\ nops' = nops + 1
  /\ lastcall' = Call("reserve", 1, r.ok, ~alloc_ok, NoIter,
                      Elem("reserve", <<size.hi, size.lo>>, <<>>, r.ptr),
                      <<>>, FALSE, <<>>, FALSE)
  /\ heap' = r.heap
  /\ muts' = IF r.muts # muts THEN SubSeq(r.muts, 1, 1) ELSE muts
  /\ subs' = IF r.muts # muts THEN SubSeq(subs, 1, 1) ELSE subs
  /\ UNCHANGED <<pc, buf, view, it, reads>>
  /\ UNCHANGED vvars

\* bson_reserve on the root; the allocator answers alloc_ok if asked
Reserve ==
  /\ pc = "mut"
  /\ nops < MaxOps
  /\ \E size \in ReserveSizes, alloc_ok \in BOOLEAN :
       ReserveDone(size, alloc_ok,
                   bson_reserve_u32(heap, muts, size, alloc_ok))

NextNew == New \/ Reserve \/ NextMut

SpecNew == InitNew /\ [][NextNew]_vars

---------------------------------------------------------------------------
(* Claims about the mutator *)

RECURSIVE TrueEnd(_, _)

\* the offset behind the terminator of the element list that starts at p,
\* found from the bytes alone: tag, key, NUL and value of each element up to
\* the first zero tag; NULL if the bytes are no element list
TrueEnd(b, p) ==
  IF ~Defined(b, {p}) THEN NULL
  ELSE IF At(b, p) = 0 THEN p + 1
  ELSE LET valptr == p + 1 + strlen(b, p + 1) + 1
           size == _bson_valsize(b, At(b, p), valptr, Len(b) - valptr)
       IN IF valptr >= Len(b) \/ size < 0 THEN NULL
          ELSE TrueEnd(b, valptr + size)

\* the byte span of the document of mutator d: header, elements, terminator
TrueSpan(b, d) ==
  IF TrueEnd(b, d.data + 4) = NULL THEN NULL
  ELSE TrueEnd(b, d.data + 4) - d.data

\* an insert or erase has returned without failure
Edited ==
  /\ pc = "mut"
  /\ lastcall.op \in {"insert", "erase", "erase_range"}
  /\ lastcall.ok

\* C1: after every insert or erase on a root or child mutator, growth of the
\* root included, the length header of the edited document and of each of
\* its ancestors equals that document's true byte span.
C1_HeadersEqualTrueSpan ==
  Edited => \A k \in 1..Len(muts) :
              bson_size(heap, muts[k]) = TrueSpan(heap, muts[k])

\* C7: when the allocator refuses the growth an insert needs, on the root or
\* through a child at any depth, the insert fails, the iterator it returns
\* equals bson_end(doc), and buffer, headers, data pointers and capacity are
\* as before the call.
C7_FailedGrowthChangesNothing ==
  [][(lastcall'.op = "insert" /\ lastcall'.allocfail /\ nops' = nops + 1)
       => /\ ~lastcall'.ok
          /\ pc' = pc
          /\ heap' = heap
          /\ muts' = muts
          /\ lastcall'.ret = bson_end(heap', muts'[lastcall'.k])]_vars

\* an insert through a child mutator has failed because the allocator
\* refused to grow the root
C7_Witness ==
  /\ pc = "mut"
  /\ lastcall.op = "insert"
  /\ lastcall.allocfail
  /\ lastcall.k > 1
  /\ Len(muts) > 1

\* the type tag an insert function gives its element
TagOf(e) ==
  CASE e[1] = "null" -> BSON_TYPE_NULL
    [] e[1] = "bool" -> BSON_TYPE_BOOL
    [] e[1] = "int32" -> BSON_TYPE_INT32
    [] e[1] = "int64" -> BSON_TYPE_INT64
    [] e[1] = "utf8" -> BSON_TYPE_UTF8
    [] e[1] = "code" -> BSON_TYPE_CODE
    [] e[1] = "symbol" -> BSON_TYPE_SYMBOL
    [] e[1] = "doc" -> BSON_TYPE_DOCUMENT
    [] e[1] = "array" -> BSON_TYPE_ARRAY
    [] e[1] = "binary" -> BSON_TYPE_BINARY
    [] e[1] = "regex" -> BSON_TYPE_REGEX
    [] e[1] = "dbpointer" -> BSON_TYPE_DBPOINTER
    [] e[1] = "code_with_scope" -> BSON_TYPE_CODEWSCOPE

\* the value bytes from which the typed accessor of the element's type
\* decodes exactly the value given to the insert function
ValueBytes(e) ==
  CASE e[1] = "null" -> <<>>
    [] e[1] = "bool" -> <<e[4]>>
    [] e[1] = "int32" -> _bson_write_uint32le(e[4])
    [] e[1] = "int64" -> _bson_write_uint32le(e[4]) \o <<0, 0, 0, 0>>
    [] e[1] \in {"utf8", "code", "symbol"} ->
         _bson_write_uint32le(Len(e[2]) + 1) \o e[2] \o <<0>>
    [] e[1] = "doc" -> IF e[2] = <<>> THEN <<5, 0, 0, 0, 0>> ELSE e[2]
    [] e[1] = "array" -> <<5, 0, 0, 0, 0>>
    [] e[1] = "binary" -> _bson_write_uint32le(Len(e[2])) \o <<e[4]>> \o e[2]
    [] e[1] = "regex" ->
         e[2] \o <<0>> \o (IF e[3] = <<0>> THEN <<>> ELSE e[3]) \o <<0>>
    [] e[1] = "dbpointer" ->
         _bson_write_uint32le(Len(e[2]) + 1) \o e[2] \o <<0>> \o e[3]
    [] e[1] = "code_with_scope" ->
         _bson_write_uint32le(4 + 4 + Len(e[2]) + 1 + Len(e[3]))
         \o _bson_write_uint32le(Len(e[2]) + 1) \o e[2] \o <<0>> \o e[3]

RECURSIVE IteratesToEnd(_, _)

\* bson_next from i reaches the end position without an error and without
\* undefined behaviour
IteratesToEnd(b, i) ==
  /\ i.ptr # NULL
  /\ (bson_iterator_done(i)
      \/ (NextDefined(b, i) /\ IteratesToEnd(b, bson_next(b, i))))

\* the bytes of b at off, off + 1, ... are bytes
HasBytes(b, off, bytes) ==
  /\ off + Len(bytes) <= Len(b)
  /\ SubSeq(b, off + 1, off + Len(bytes)) = bytes

\* C8: after a successful insert at bson_end(doc), the returned iterator
\* refers to an element with the given key and the type's tag whose value
\* bytes decode to the given value, and the document iterates from
\* bson_begin to bson_end.
C8_InsertedElementReadsBack ==
  (pc = "mut" /\ lastcall.op = "insert" /\ lastcall.ok /\ lastcall.atend)
    => /\ lastcall.ret.keylen = Len(lastcall.key)
       /\ HasBytes(heap, lastcall.ret.ptr,
                   <<TagOf(lastcall.elem)>> \o lastcall.key \o <<0>>
                   \o ValueBytes(lastcall.elem))
       /\ skip_size(heap, lastcall.ret)
            = 2 + Len(lastcall.key) + Len(ValueBytes(lastcall.elem))
       /\ BeginDefined(heap, muts[lastcall.k])
       /\ IteratesToEnd(heap, bson_begin(heap, muts[lastcall.k]))

\* C9: inserting an element and erasing it at once, with bson_erase on the
\* returned iterator or bson_erase_range over just that element, gives back
\* the document's bytes, header included, whether or not the root grew.
C9_InsertThenEraseRestores ==
  lastcall.roundtrip
    => /\ pc = "mut"
       /\ RootBytes(heap, muts) = lastcall.undo

\* C10: after edits through a child mutator, bson_parent_iterator(child) is
\* at the element's offset in the parent with its key length and with _rlen
\* = size(parent) - offset, bson_iterator_document of it is a non-null view
\* of the child's bytes, and the parent's header has changed by the child's
\* net growth.
C10_ParentIteratorFollowsChild ==
  Edited => \A k \in 2..Len(muts) :
    LET pit == bson_parent_iterator(heap, muts, k)
        off == pit.ptr - muts[k - 1].data
    IN /\ off = subs[k].off
       /\ pit.keylen = subs[k].keylen
       /\ pit.rlen = bson_size(heap, muts[k - 1]) - off
       /\ bson_iterator_document(heap, pit).data # NULL
       /\ _bson_iterator_value_ptr(pit) = muts[k].data
       /\ bson_view_len(bson_iterator_document_data(heap, pit),
                        bson_iterator_document(heap, pit))
            = bson_size(heap, muts[k])
       /\ bson_size(heap, muts[k - 1]) - subs[k].psize
            = bson_size(heap, muts[k]) - subs[k].csize

---------------------------------------------------------------------------
(* More claims about the iterator *)

\* the value size _bson_iterator_at checks when it makes iterator i: the one
\* computed against the bytes left after the key
ValidatedSize(b, i) ==
  _bson_valsize(b, bson_iterator_type(b, i), _bson_iterator_value_ptr(i),
                i.rlen - (1 + i.keylen + 1))

\* C11: for a valid-at-element iterator, bson_next decodes at
\* ptr + 1 + keylen + 1 + value_size with _rlen reduced by the same amount,
\* where value_size is the size checked when the iterator was made, and it
\* returns a valid-at-element iterator, the done iterator or an errored one.
C11_NextStepsByValidatedSize ==
  (pc = "iter" /\ it.rlen > 1) =>
    /\ ValidatedSize(buf, it) >= 0
    /\ bson_next_pre(buf, it)
    /\ bson_next(buf, it)
         = _bson_iterator_at(
             buf, it.ptr + (1 + it.keylen + 1 + ValidatedSize(buf, it)),
             it.rlen - (1 + it.keylen + 1 + ValidatedSize(buf, it)))
    /\ \/ /\ bson_next(buf, it).rlen >= 1
          /\ bson_next(buf, it).ptr
               = it.ptr + (1 + it.keylen + 1 + ValidatedSize(buf, it))
          /\ bson_next(buf, it).rlen
               = it.rlen - (1 + it.keylen + 1 + ValidatedSize(buf, it))
       \/ /\ bson_next(buf, it).rlen < 0
          /\ bson_next(buf, it).ptr = NULL

\* bson_next has produced an iterator at an element with a value of at least
\* one byte, and the next call of bson_next gives the done iterator
C11_Witness ==
  /\ pc = "iter"
  /\ it.rlen > 1
  /\ it.ptr > 4
  /\ ValidatedSize(buf, it) > 0
  /\ bson_next(buf, it).rlen = 1

\* the size of a value of type tag that starts at v, by the BSON format, in
\* a document whose terminator is at offset end; NULL when the tag is unknown
\* or the value does not fit before the terminator
FormatValueSize(b, tag, v, end) ==
  LET prefix == IF v + 4 <= end /\ bson_read_uint32_le(b, v).hi < 32768
                THEN WideInt(bson_read_uint32_le(b, v)) ELSE NULL
      nul1 == {k \in v..(end - 1) : At(b, k) = 0}
      nul2 == {k \in v..(end - 1) : At(b, k) = 0 /\ k > SetMin(nul1)}
      size ==
        CASE tag \in {BSON_TYPE_NULL, BSON_TYPE_UNDEFINED, BSON_TYPE_MAXKEY,
                      BSON_TYPE_MINKEY} -> 0
          [] tag = BSON_TYPE_BOOL -> 1
          [] tag = BSON_TYPE_INT32 -> 4
          [] tag \in {BSON_TYPE_DOUBLE, BSON_TYPE_DATE_TIME,
                      BSON_TYPE_TIMESTAMP, BSON_TYPE_INT64} -> 8
          [] tag = BSON_TYPE_OID -> 12
          [] tag = BSON_TYPE_DECIMAL128 -> 16
          [] tag \in {BSON_TYPE_UTF8, BSON_TYPE_CODE, BSON_TYPE_SYMBOL} ->
               IF prefix = NULL THEN NULL ELSE 4 + prefix
          [] tag \in {BSON_TYPE_DOCUMENT, BSON_TYPE_ARRAY,
                      BSON_TYPE_CODEWSCOPE} -> prefix
          [] tag = BSON_TYPE_BINARY ->
               IF prefix = NULL THEN NULL ELSE 4 + 1 + prefix
          [] tag = BSON_TYPE_DBPOINTER ->
               IF prefix = NULL THEN NULL ELSE 4 + prefix + 12
          [] tag = BSON_TYPE_REGEX ->
               IF nul1 = {} \/ nul2 = {} THEN NULL
               ELSE SetMin(nul2) + 1 - v
          [] OTHER -> NULL
  IN IF size = NULL \/ v + size > end THEN NULL ELSE size

\* the offset behind the element at p, by the BSON format; NULL when the
\* bytes at p are no element that ends before the terminator at end
FormatNext(b, p, end) ==
  LET keyend == {k \in (p + 1)..(end - 1) : At(b, k) = 0}
      v == SetMin(keyend) + 1
  IN IF p >= end \/ keyend = {} THEN NULL
     ELSE IF FormatValueSize(b, At(b, p), v, end) = NULL THEN NULL
     ELSE v + FormatValueSize(b, At(b, p), v, end)

RECURSIVE FormatCount(_, _, _)

\* the number of well-formed elements from p up to the terminator at end;
\* NULL when the bytes are not all well-formed elements
FormatCount(b, p, end) ==
  IF p = end THEN 0
  ELSE IF FormatNext(b, p, end) = NULL THEN NULL
  ELSE IF FormatCount(b, FormatNext(b, p, end), end) = NULL THEN NULL
  ELSE 1 + FormatCount(b, FormatNext(b, p, end), end)

\* C12: every call of bson_next on a not-done iterator lowers _rlen, so the
\* walk from bson_begin stops; in a document of n well-formed elements the
\* walk visits the n elements one call at a time and stops at an iterator
\* equal to bson_end; for the empty document bson_view_len is 5 and
\* bson_begin is done and equal to bson_end.
C12_WalkStopsAtEnd ==
  pc = "iter" =>
    /\ it.rlen > 1 => bson_next(buf, it).rlen < it.rlen
    /\ FormatCount(buf, 4, HdrLow31 - 1) # NULL =>
         /\ it.rlen >= 1
         /\ FormatCount(buf, it.ptr, HdrLow31 - 1) # NULL
         /\ it.rlen = 1 <=> bson_iterator_eq(it, bson_end(buf, view))
         /\ it.rlen > 1 =>
              /\ bson_next(buf, it).rlen >= 1
              /\ bson_next(buf, it).ptr
                   = FormatNext(buf, it.ptr, HdrLow31 - 1)
    /\ buf = <<5, 0, 0, 0, 0>> =>
         /\ bson_view_len(buf, view) = 5
         /\ bson_iterator_done(it)
         /\ bson_iterator_eq(it, bson_end(buf, view))

\* C13: an iterator from bson_begin or bson_next is valid at an element
\* (_rlen > 1), done at the terminator (_rlen = 1) or errored (_rlen < 0)
\* with one of the four error kinds; bson_iterator_done is true exactly for
\* the done and errored ones and bson_get_error is NO_ERROR exactly for the
\* valid and done ones.
C13_IteratorStates ==
  pc = "iter" =>
    /\ \/ it.rlen > 1 /\ it.ptr >= 4 /\ it.ptr + it.rlen = HdrLow31
       \/ it.rlen = 1 /\ it.ptr = HdrLow31 - 1 /\ At(buf, it.ptr) = 0
       \/ /\ it.rlen < 0
          /\ it.ptr = NULL
          /\ bson_get_error(it)
               \in {BSON_ITER_SHORT_READ, BSON_ITER_INVALID_TYPE,
                    BSON_ITER_INVALID, BSON_ITER_INVALID_LENGTH}
    /\ bson_iterator_done(it) <=> (it.rlen = 1 \/ it.rlen < 0)
    /\ (bson_get_error(it) = BSON_ITER_NO_ERROR) <=> it.rlen >= 1

\* bson_next has returned an errored iterator behind a min-key element
C13_Witness ==
  /\ pc = "iter"
  /\ Len(buf) > 7
  /\ At(buf, 4) = BSON_TYPE_MINKEY
  /\ At(buf, 5) = 0
  /\ it.rlen < 0
  /\ bson_get_error(it) = BSON_ITER_INVALID_LENGTH

\* the tag, the value position and the bytes left for the value of the
\* element at p, when r bytes are left from p to the end of the document
TagAt(b, p) == At(b, p)

ValueAt(b, p) == p + 1 + strlen(b, p + 1) + 1

ValueRoom(b, p, r) == r - 1 - strlen(b, p + 1) - 1

\* the element at p declares a value that does not end before the document's
\* last byte: a fixed size, or a length prefix plus the fixed part, that is
\* not below the bytes left, or a length prefix that does not fit itself
Overruns(b, p, r) ==
  /\ r > 1
  /\ ValueRoom(b, p, r) >= 1
  /\ TagAt(b, p) # BSON_TYPE_REGEX
  /\ const_sizes(TagAt(b, p)) # INT32_MAX
  /\ IF varsize_pick(TagAt(b, p))
     THEN \/ ValueRoom(b, p, r) <= 4
          \/ ~WideLt(full_len_of(b, TagAt(b, p), ValueAt(b, p)),
                     ValueRoom(b, p, r))
     ELSE const_sizes(TagAt(b, p)) >= ValueRoom(b, p, r)

\* the element at p has a tag in 0x14..0x7E or 0x80..0xFE and at least one
\* byte follows its key's NUL
UnknownTagAt(b, p, r) ==
  /\ r > 1
  /\ ValueRoom(b, p, r) >= 1
  /\ TagAt(b, p) \in (20..126) \cup (128..254)

\* the position bson_next decodes from iterator i, and the bytes left there
NextPtr(b, i) == i.ptr + (1 + i.keylen + 1 + ValidatedSize(b, i))

NextRlen(b, i) == i.rlen - (1 + i.keylen + 1 + ValidatedSize(b, i))

\* C14: when the value an element declares overruns the bytes left in the
\* document, bson_begin and bson_next return an errored iterator whose
\* error kind is SHORT_READ.
C14_OverrunIsShortRead ==
  [][/\ (pc = "viewed" /\ pc' = "iter"
          /\ Overruns(buf, view.data + 4, bson_view_len(buf, view) - 4))
         => bson_get_error(it') = BSON_ITER_SHORT_READ
     /\ (pc = "iter" /\ pc' = "iter"
          /\ Overruns(buf, NextPtr(buf, it), NextRlen(buf, it)))
         => bson_get_error(it') = BSON_ITER_SHORT_READ]_vars

\* C15: an element whose tag is in 0x14..0x7E or 0x80..0xFE, with any key and
\* at least one byte behind the key's NUL, makes bson_begin and bson_next
\* return an iterator errored with INVALID_TYPE, whatever count of bytes is
\* left.
C15_UnknownTagIsInvalidType ==
  [][/\ (pc = "viewed" /\ pc' = "iter"
          /\ UnknownTagAt(buf, view.data + 4, bson_view_len(buf, view) - 4))
         => /\ it'.rlen < 0
            /\ bson_get_error(it') = BSON_ITER_INVALID_TYPE
     /\ (pc = "iter" /\ pc' = "iter"
          /\ UnknownTagAt(buf, NextPtr(buf, it), NextRlen(buf, it)))
         => /\ it'.rlen < 0
            /\ bson_get_error(it') = BSON_ITER_INVALID_TYPE]_vars

\* bson_next has returned INVALID_TYPE for an element with the tag 0xFE, a
\* key of one byte and more than 16 bytes behind it
C15_Witness ==
  /\ pc = "iter"
  /\ Len(buf) > 4 + 2 + 3 + 16
  /\ At(buf, 4) = BSON_TYPE_MINKEY
  /\ At(buf, 6) = 254
  /\ At(buf, 7) = 97
  /\ it.rlen = -BSON_ITER_INVALID_TYPE

\* the key of the element at p, read from the bytes
KeyBytes(b, p) == SubSeq(b, p + 2, p + 1 + strlen(b, p + 1))

RECURSIVE WalkPtrs(_, _)

\* the positions of the elements from iterator i on, in document order
WalkPtrs(b, i) ==
  IF i.rlen > 1 THEN {i.ptr} \cup WalkPtrs(b, bson_next(b, i)) ELSE {}

\* C16: bson_find_key returns an iterator at the first element, in document
\* order, whose key has the length and the bytes of the key asked for; when
\* no element has that key it returns an iterator that is done, the end
\* iterator when every element of the document is well-formed.
C16_FindKeyFindsFirst ==
  pc = "found" =>
    /\ lastcall.op = "find_key" /\ lastcall.ret = it
    /\ it.rlen > 1 =>
         /\ it.ptr \in WalkPtrs(buf, bson_begin(buf, view))
         /\ KeyBytes(buf, it.ptr) = lastcall.key
         /\ \A p \in WalkPtrs(buf, bson_begin(buf, view)) :
              KeyBytes(buf, p) = lastcall.key => it.ptr <= p
    /\ ~(it.rlen > 1) =>
         /\ bson_iterator_done(it)
         /\ \A p \in WalkPtrs(buf, bson_begin(buf, view)) :
              KeyBytes(buf, p) # lastcall.key
         /\ FormatCount(buf, 4, HdrLow31 - 1) # NULL
              => it = bson_end(buf, view)

---------------------------------------------------------------------------
(* More claims about the mutator *)

RECURSIVE FormatRun(_, _, _, _)

\* the bytes from p up to q are whole elements by the BSON format, in a
\* document whose terminator is at offset end
FormatRun(b, p, q, end) ==
  IF p = q THEN TRUE
  ELSE IF p > q \/ FormatNext(b, p, end) = NULL THEN FALSE
  ELSE FormatRun(b, FormatNext(b, p, end), q, end)

\* what bson_erase_range(muts[k], first, last_) is to do in this step
EraseRangeEffect(k, first, last_) ==
  /\ FormatRun(heap, first.ptr, last_.ptr,
               muts[k].data + bson_size(heap, muts[k]) - 1)
  /\ muts'[k] = muts[k]
  /\ bson_size(heap', muts[k])
       = bson_size(heap, muts[k]) - (last_.ptr - first.ptr)
  /\ SubSeq(heap', muts[k].data + 5, first.ptr)
       = SubSeq(heap, muts[k].data + 5, first.ptr)
  /\ SubSeq(heap', first.ptr + 1, first.ptr + last_.rlen)
       = SubSeq(heap, last_.ptr + 1, last_.ptr + last_.rlen)
  /\ lastcall'.ret = [last_ EXCEPT !.ptr = first.ptr]
  /\ lastcall'.ret.rlen
       = bson_size(heap', muts[k]) - (first.ptr - muts[k].data)
  /\ first.ptr = last_.ptr => heap' = heap

\* C17: bson_erase_range(doc, first, last), also when bson_erase calls it
\* with last = bson_next(first), removes the bytes of the elements of
\* [first, last) and no others: the document's size falls by their sizes,
\* the bytes before first and from last on are kept in order, the iterator
\* returned is at first's offset with the key length and remaining length
\* of last, and with first = last nothing changes.
C17_EraseRangeRemovesTheRange ==
  [][/\ (lastcall'.op = "erase_range" /\ nops' = nops + 1)
         => /\ pc' = "mut"
            /\ \E first \in Positions(heap, muts[lastcall'.k]) :
                 \E last_ \in WalkFrom(heap, first, MaxWalk) :
                   EraseRangeEffect(lastcall'.k, first, last_)
     /\ (lastcall'.op = "erase" /\ nops' = nops + 1)
         => /\ pc' = "mut"
            /\ \E first \in Positions(heap, muts[lastcall'.k])
                            \cup Returned(lastcall'.k) :
                 /\ NextDefined(heap, first)
                 /\ EraseRangeEffect(lastcall'.k, first,
                                     bson_next(heap, first))]_vars

\* the sizes of the element of an insert call overflow a signed 32-bit
\* integer: the string size and its prefix, or tag, key, NUL and value
SizeOverflows(e, key) ==
  \/ e[1] = "utf8" /\ e[4] > INT32_MAX - (1 + 4)
  \/ 1 + Len(key) + 1 + Len(ValueBytes(e)) > INT32_MAX

\* C18: an insert whose element size or document size overflows int32
\* returns bson_end(doc) and leaves bytes, headers and capacity as they are;
\* no insert function, bson_insert_code and bson_insert_symbol included,
\* uses a negative or wrapped-around size as splice size or copy length.
C18_InsertSizesAreChecked ==
  [][(lastcall'.op = "insert" /\ nops' = nops + 1)
       => /\ SizeOverflows(lastcall'.elem, lastcall'.key)
               => /\ ~lastcall'.ok
                  /\ lastcall'.ret = bson_end(heap, muts[lastcall'.k])
                  /\ heap' = heap /\ muts' = muts /\ pc' = pc
          /\ ~SizeOverflows(lastcall'.elem, lastcall'.key)
               => /\ ~PlanOf(lastcall'.elem).reject
                  /\ ~PlanOf(lastcall'.elem).ub
                  /\ PlanOf(lastcall'.elem).datasize >= 0
                  /\ PlanOf(lastcall'.elem).datasize + 2
                       + Len(lastcall'.key) <= INT32_MAX]_vars

\* C19: bson_mut_new_ex either returns a root whose capacity is at least
\* max(5, reserve) and whose content is the empty document (header 5, byte 4
\* zero, bson_begin done at once and equal to bson_end), or, when the
\* allocator fails, returns a mutator with a null data pointer and writes
\* nothing through that pointer.
C19_NewIsEmptyOrNull ==
  lastcall.op = "new_ex" =>
    IF lastcall.allocfail
    THEN /\ pc # "undefined"
         /\ muts[1].data = NULL
         /\ heap = <<>>
    ELSE /\ pc = "mut"
         /\ muts[1].data # NULL
         /\ muts[1].cap >= 5
         /\ muts[1].cap >= lastcall.elem[4]
         /\ Len(heap) >= muts[1].cap
         /\ SubSeq(heap, 1, 5) = <<5, 0, 0, 0, 0>>
         /\ bson_iterator_done(bson_begin(heap, muts[1]))
         /\ bson_begin(heap, muts[1]) = bson_end(heap, muts[1])

\* the size bson_reserve was called with fits the capacity c
ReserveFits(size, c) == size[1] <= 32767 /\ c >= size[1] * 65536 + size[2]

\* C20: bson_reserve on a root changes nothing and returns the capacity when
\* the capacity is at least the size; otherwise it asks the allocator for
\* size bytes and returns the new capacity, with the old bytes and the
\* document size kept, or returns a negative value and changes nothing when
\* the allocator fails or the size is above INT32_MAX.  No reserve, insert,
\* erase or subdocument call with defined behaviour lowers the root's
\* capacity.
C20_ReserveGrowsOnly ==
  [][/\ (lastcall'.op = "reserve" /\ nops' = nops + 1)
          => IF ReserveFits(lastcall'.elem[2], muts[1].cap)
             THEN /\ heap' = heap
                  /\ muts' = muts
                  /\ lastcall'.elem[4] = muts[1].cap
             ELSE IF lastcall'.allocfail \/ lastcall'.elem[2][1] > 32767
             THEN /\ lastcall'.elem[4] < 0
                  /\ heap' = heap
                  /\ muts' = muts
             ELSE /\ lastcall'.elem[4]
                       = lastcall'.elem[2][1] * 65536 + lastcall'.elem[2][2]
                  /\ muts'[1].cap = lastcall'.elem[4]
                  /\ muts'[1].data = muts[1].data
                  /\ Len(heap') = lastcall'.elem[4]
                  /\ SubSeq(heap', 1, Len(heap)) = heap
                  /\ bson_size(heap', muts'[1]) = bson_size(heap, muts[1])
     /\ (pc = "mut" /\ pc' = "mut") => muts'[1].cap >= muts[1].cap]_vars

\* a reserve call that reallocated a root holding an element
C20_Witness ==
  /\ lastcall.op = "reserve"
  /\ lastcall.ok
  /\ lastcall.elem[4] = 40
  /\ Len(heap) = 40
  /\ muts[1].cap = 40
  /\ bson_size(heap, muts[1]) > 5
  /\ bson_size(heap, muts[1]) <= 32

---------------------------------------------------------------------------
(* Claims about capacity, children and the spliced region *)

\* the bytes an insert call splices in: tag, key, NUL and the value size the
\* insert function asks for
SplicedSize(c) == PlanOf(c.elem).datasize + 2 + Len(c.key)

\* C21: the capacity of a child is the capacity of its parent less the bytes
\* of the parent that are not the child's, so capacity - size is the same at
\* every level.  An insert through a mutator whose new size is at most its
\* capacity does not call the allocator; one whose new size is above it
\* reallocates once, at the root (to the root's new size and the slack), or
\* fails when the allocator refuses.  An erase never reallocates.
C21_ChildCapacityFollowsRoot ==
  [][/\ pc' = "mut"
          => \A j \in 2..Len(muts') :
               /\ bson_capacity(heap', muts', j)
                    = bson_capacity(heap', muts', j - 1)
                      - (bson_size(heap', muts'[j - 1])
                         - bson_size(heap', muts'[j]))
               /\ bson_capacity(heap', muts', j) - bson_size(heap', muts'[j])
                    = muts'[1].cap - bson_size(heap', muts'[1])
     /\ (lastcall'.op = "insert" /\ nops' = nops + 1 /\ pc' = "mut"
           /\ ~PlanOf(lastcall'.elem).reject)
          => IF bson_size(heap, muts[lastcall'.k]) + SplicedSize(lastcall')
                  <= bson_capacity(heap, muts, lastcall'.k)
             THEN /\ lastcall'.ok
                  /\ ~lastcall'.allocfail
                  /\ Len(heap') = Len(heap)
                  /\ muts'[1].cap = muts[1].cap
             ELSE \/ /\ ~lastcall'.ok
                     /\ lastcall'.allocfail
                     /\ heap' = heap
                     /\ muts' = muts
                  \/ /\ lastcall'.ok
                     /\ muts'[1].cap
                          = bson_size(heap, muts[1]) + SplicedSize(lastcall')
                            + splice_slack
                     /\ Len(heap') = muts'[1].cap
                     /\ \A j \in 2..Len(muts') : muts'[j].cap = muts[j].cap
     /\ (lastcall'.op \in {"erase", "erase_range"} /\ nops' = nops + 1
           /\ pc' = "mut")
          => /\ Len(heap') = Len(heap)
             /\ muts'[1].cap = muts[1].cap]_vars

\* an insert through a child that made the root grow
C21_Witness ==
  /\ lastcall.op = "insert"
  /\ lastcall.k = 2
  /\ lastcall.ok
  /\ Len(muts) = 2
  /\ muts[1].cap = BigReserve + 1 + splice_slack
  /\ bson_capacity(heap, muts, 2) - bson_size(heap, muts[2])
       = muts[1].cap - bson_size(heap, muts[1])

\* C22: bson_mut_subdocument returns the null mutator and leaves the parent
\* as it is when the element at the iterator is neither a document nor an
\* array; otherwise it returns a child of the parent: the offset field is
\* the negated element offset, which is at least 4, and the data pointer is
\* the element's value (element offset + key length + 2).
C22_SubdocumentIsChildOrNull ==
  [][lastcall'.op = "subdocument"
       => /\ heap' = heap
          /\ SubSeq(muts', 1, lastcall'.k) = SubSeq(muts, 1, lastcall'.k)
          /\ IF TagAt(heap, lastcall'.ret.ptr)
                  \in {BSON_TYPE_DOCUMENT, BSON_TYPE_ARRAY}
             THEN /\ lastcall'.ok
                  /\ Len(muts') = lastcall'.k + 1
                  /\ muts'[lastcall'.k + 1].data = lastcall'.elem[2][1]
                  /\ muts'[lastcall'.k + 1].cap = lastcall'.elem[2][2]
                  /\ lastcall'.elem[2][2] < 0
                  /\ lastcall'.ret.ptr - muts[lastcall'.k].data >= 4
                  /\ lastcall'.elem[2][2]
                       = -(lastcall'.ret.ptr - muts[lastcall'.k].data)
                  /\ lastcall'.elem[2][1]
                       = lastcall'.ret.ptr + lastcall'.ret.keylen + 2
                  /\ lastcall'.elem[2][1] = ValueAt(heap, lastcall'.ret.ptr)
             ELSE /\ ~lastcall'.ok
                  /\ lastcall'.elem[2][1] = NULL
                  /\ muts' = muts]_vars

\* the null mutator returned for an element of a child that is no document
C22_Witness ==
  /\ lastcall.op = "subdocument"
  /\ ~lastcall.ok
  /\ lastcall.k = 2
  /\ ~lastcall.atend
  /\ Len(muts) = 2

\* C23: whenever bson_iterator_utf8 returns a slice with non-null data for an
\* iterator from bson_begin / bson_next on an accepted view, the len + 1
\* bytes from data lie inside the element's value and the byte at data[len]
\* is zero.
C23_Utf8SliceIsTerminated ==
  (lastcall.op = "utf8" /\ lastcall.ok)
    => /\ lastcall.elem[2][2] >= 0
       /\ lastcall.elem[2][1] >= ValueAt(buf, it.ptr)
       /\ lastcall.elem[2][1] + lastcall.elem[2][2] + 1
            <= ValueAt(buf, it.ptr) + ValidatedSize(buf, it)
       /\ At(buf, lastcall.elem[2][1] + lastcall.elem[2][2]) = 0

---------------------------------------------------------------------------
(* Claims about the sizes of values *)

\* the length prefix of the value of the element at p, when below 2^31
PrefixAt(b, p) == WideInt(bson_read_uint32_le(b, ValueAt(b, p)))

\* C24: at a DBPointer element whose length prefix is n the value size is
\* 4 + n + 12 for lazy iteration, for the validator (the jump over the
\* value) and for bson_insert_dbpointer of the same collection name.
C24_DbPointerSizeAgrees ==
  (pc = "iter" /\ it.rlen > 1 /\ TagAt(buf, it.ptr) = BSON_TYPE_DBPOINTER)
    => /\ ValidatedSize(buf, it) = 4 + PrefixAt(buf, it.ptr) + 12
       /\ validate_prepare_jump(buf, BSON_TYPE_DBPOINTER,
                                ValueAt(buf, it.ptr), Len(buf)).kind = "jump"
       /\ validate_prepare_jump(buf, BSON_TYPE_DBPOINTER,
                                ValueAt(buf, it.ptr), Len(buf)).jump
            = 4 + PrefixAt(buf, it.ptr) + 12
       /\ bson_insert_dbpointer(
            SubSeq(buf, ValueAt(buf, it.ptr) + 5,
                   ValueAt(buf, it.ptr) + 4 + PrefixAt(buf, it.ptr) - 1),
            <<0, 0, 0, 0, 0, 0, 0, 0, 0, 0, 0, 0>>).datasize
            = 4 + PrefixAt(buf, it.ptr) + 12

\* what a length-prefixed value holds besides the bytes its prefix counts:
\* the prefix for strings, code and symbol, nothing for documents and arrays
\* (their prefix counts itself), the prefix and the subtype for binary
PrefixedExtra(tag) ==
  CASE tag \in {BSON_TYPE_UTF8, BSON_TYPE_CODE, BSON_TYPE_SYMBOL} -> 4
    [] tag \in {BSON_TYPE_DOCUMENT, BSON_TYPE_ARRAY} -> 0
    [] tag = BSON_TYPE_BINARY -> 4 + 1

\* the oracle's answer for the length-prefixed element at p with r bytes
\* left, seen in the iterator i that _bson_iterator_at returned for it
PrefixedSizeRight(b, p, r, i) ==
  LET tag == TagAt(b, p)
      room == ValueRoom(b, p, r)
      n == bson_read_uint32_le(b, ValueAt(b, p))
  IN /\ _bson_valsize_reads(b, tag, ValueAt(b, p), room) # {} => room >= 4
     /\ room < 4 => bson_get_error(i) = BSON_ITER_INVALID_LENGTH
     /\ (room > 4 /\ n.hi = 0 /\ n.lo + PrefixedExtra(tag) < room)
          => /\ i = [ptr |-> p, rlen |-> r, keylen |-> strlen(b, p + 1)]
             /\ ValidatedSize(b, i) = n.lo + PrefixedExtra(tag)
     /\ (room >= 4 /\ (n.hi > 0 \/ n.lo + PrefixedExtra(tag) > room))
          => bson_get_error(i) = BSON_ITER_INVALID_LENGTH
     /\ i.rlen > 1
          => /\ n.hi = 0
             /\ ValidatedSize(b, i) = n.lo + PrefixedExtra(tag)
             /\ ValidatedSize(b, i) <= room

\* an element of a length-prefixed type at p, with r bytes left and at least
\* one byte behind its key
PrefixedAt(b, p, r) ==
  /\ r > 1
  /\ ValueRoom(b, p, r) >= 1
  /\ TagAt(b, p) \in PrefixedTags

\* C25: for an element with the length prefix n the value size is 4 + n for
\* UTF-8, code and symbol, n for document and array and n + 4 + 1 for
\* binary; the prefix is read only when at least 4 bytes are left for the
\* value, and the element is rejected with INVALID_LENGTH when that size
\* exceeds the bytes left.
C25_PrefixedSizes ==
  [][/\ (pc = "viewed" /\ pc' = "iter"
          /\ PrefixedAt(buf, view.data + 4, bson_view_len(buf, view) - 4))
         => PrefixedSizeRight(buf, view.data + 4,
                              bson_view_len(buf, view) - 4, it')
     /\ (pc = "iter" /\ pc' = "iter"
          /\ PrefixedAt(buf, NextPtr(buf, it), NextRlen(buf, it)))
         => PrefixedSizeRight(buf, NextPtr(buf, it), NextRlen(buf, it),
                              it')]_vars

\* bson_begin has returned a valid iterator at a binary element with the
\* prefix 1, whose value has 6 bytes
C25_Witness ==
  /\ pc = "iter"
  /\ it.rlen > 1
  /\ TagAt(buf, it.ptr) = BSON_TYPE_BINARY
  /\ PrefixAt(buf, it.ptr) = 1
  /\ ValidatedSize(buf, it) = 6

\* the sizes of the fixed-size types
FixedSizeOf(tag) ==
  CASE tag \in {BSON_TYPE_DOUBLE, BSON_TYPE_DATE_TIME, BSON_TYPE_TIMESTAMP,
                BSON_TYPE_INT64} -> 8
    [] tag = BSON_TYPE_OID -> 12
    [] tag = BSON_TYPE_BOOL -> 1
    [] tag = BSON_TYPE_INT32 -> 4
    [] tag = BSON_TYPE_DECIMAL128 -> 16
    [] tag \in {BSON_TYPE_NULL, BSON_TYPE_UNDEFINED, BSON_TYPE_MINKEY,
                BSON_TYPE_MAXKEY} -> 0

\* an element of a fixed-size type at p, with r bytes left and at least one
\* byte behind its key
FixedAt(b, p, r) ==
  /\ r > 1
  /\ ValueRoom(b, p, r) >= 1
  /\ TagAt(b, p) \in FixedTags

\* iterator i, returned by _bson_iterator_at for the element at p, is what
\* a call of the oracle gives, whether the call was skipped or not
OracleDecides(b, p, r, i) ==
  LET size == _bson_valsize(b, TagAt(b, p), ValueAt(b, p), ValueRoom(b, p, r))
  IN IF size >= 0
     THEN i = [ptr |-> p, rlen |-> r, keylen |-> strlen(b, p + 1)]
     ELSE i = _bson_iterator_error(-size)

\* the element at p is accepted with its fixed size when fits holds and
\* rejected with INVALID_LENGTH when not
FixedSizeRight(b, p, r, i, fits) ==
  /\ OracleDecides(b, p, r, i)
  /\ IF fits
     THEN /\ i = [ptr |-> p, rlen |-> r, keylen |-> strlen(b, p + 1)]
          /\ ValidatedSize(b, i) = FixedSizeOf(TagAt(b, p))
     ELSE /\ i.ptr = NULL
          /\ bson_get_error(i) = BSON_ITER_INVALID_LENGTH

RegexOptions(e) == IF e[3] = <<0>> THEN <<>> ELSE e[3]

\* C27: the value of a regex element has (pattern length + 1) + (options
\* length + 1) bytes.  bson_insert_regex asks for and writes exactly that
\* many value bytes, and the oracle finds that size for the element it
\* inserted.
C27_RegexSize ==
  [][(lastcall'.op = "insert" /\ nops' = nops + 1
       /\ lastcall'.elem[1] = "regex" /\ lastcall'.ok)
      => /\ PlanOf(lastcall'.elem).datasize
              = (Len(lastcall'.elem[2]) + 1)
                + (Len(RegexOptions(lastcall'.elem)) + 1)
         /\ Len(PlanOf(lastcall'.elem).bytes)
              = PlanOf(lastcall'.elem).datasize
         /\ pc' = "mut"
         /\ lastcall'.ret.rlen > 1
         /\ ValidatedSize(heap', lastcall'.ret)
              = PlanOf(lastcall'.elem).datasize]_vars

---------------------------------------------------------------------------
(* Claims about what an insert leaves alone *)

\* the offsets of the length headers of muts[1] .. muts[k]
HeaderOffsets(ms, k) ==
  {ms[j].data + i : j \in 1..k, i \in 0..3}

\* the bytes an insert function copies out of the caller's byte array: for
\* bson_insert_binary everything it writes behind the prefix and the subtype
CopiedFromCaller(e) ==
  IF e[1] = "binary" THEN Len(PlanOf(e).bytes) - 5 ELSE Len(e[2])

\* C28: a successful insert of any type writes only inside the spliced
\* region of 1 + keylen + 1 + value size bytes at pos: the bytes in front of
\* pos other than length headers are as before, the bytes that were at pos
\* and behind it, the terminator included, follow the new element
\* unchanged, and no more than the value's own bytes are read from the
\* caller's input.
C28_InsertWritesOnlyItsRegion ==
  [][(lastcall'.op = "insert" /\ nops' = nops + 1 /\ lastcall'.ok)
      => LET o == lastcall'.ret.ptr
             n == 2 + Len(lastcall'.key) + Len(ValueBytes(lastcall'.elem))
             old == lastcall'.undo
         IN /\ pc' = "mut"
            /\ Len(old) > o
            /\ \A i \in (0..(o - 1)) \ HeaderOffsets(muts, lastcall'.k) :
                  At(heap', i) = At(heap, i)
            /\ HasBytes(heap', o + n, SubSeq(old, o + 1, Len(old)))
            /\ CopiedFromCaller(lastcall'.elem)
                 <= Len(lastcall'.elem[2])]_vars

---------------------------------------------------------------------------
(* Claims about the zero tag and about the root's buffer *)

\* C29: lazy iteration never presents a type tag 0x00 that is not the
\* document's final byte as an element: an iterator that is neither done nor
\* errored has a non-zero tag, and a done iterator has exactly one byte left.
C29_ZeroTagIsNoElement ==
  pc = "iter" =>
    /\ it.rlen > 1 => TagAt(buf, it.ptr) # 0
    /\ (it.rlen >= 0 /\ bson_iterator_done(it)) => it.rlen = 1

\* the root's header and capacity fit the buffer it owns
RootFits(b, ms) ==
  /\ 5 <= bson_size(b, ms[1])
  /\ bson_size(b, ms[1]) <= ms[1].cap
  /\ ms[1].cap <= Len(b)

\* the bytes the root's part of _bson_splice_region touches when it replaces
\* n_delete bytes at position by n_insert bytes in a document that ended at
\* doc_end: memmove reads [position + n_delete, doc_end) and writes as many
\* bytes from position + n_insert, memset writes [position, position +
\* n_insert); all of them lie in [0, capacity)
SpliceInside(position, n_delete, n_insert, doc_end, capacity) ==
  /\ position >= 0
  /\ doc_end - (position + n_delete) >= 0
  /\ doc_end <= capacity
  /\ position + n_insert + (doc_end - (position + n_delete)) <= capacity
  /\ position + n_insert <= capacity

\* the region the insert of the last call asked the splice for
AskedFor(c) == 2 + Len(c.key) + PlanOf(c.elem).datasize

\* no splice that an insert of n_insert bytes or an erase on muts[k] can ask
\* for, at positions found by iterating it, moves bytes it may not touch
NoSpliceLeaves(b, ms, k, n_insert) ==
  \A pos \in Positions(b, ms[k]) :
    /\ \A alloc_ok \in BOOLEAN :
         ~_bson_splice_region(b, ms, k, pos.ptr, 0, n_insert, alloc_ok).ub
    /\ \A last_ \in WalkFrom(b, pos, MaxWalk) :
         erase_del_size(b, pos, last_) # NULL =>
           ~_bson_splice_region(b, ms, k, pos.ptr,
                                erase_del_size(b, pos, last_), 0, TRUE).ub

\* C30: once bson_mut_new_ex has succeeded, and after every insert, erase
\* and reserve, the root has 5 <= header length <= capacity, and the memmove
\* and memset of the splice of an insert or erase touch only bytes in
\* [0, capacity) of the root's buffer: they stay inside it when the call
\* succeeds, and a call with undefined behaviour has it from elsewhere.
C30_RootStaysWithinCapacity ==
  [][/\ pc' = "mut" => RootFits(heap', muts')
     /\ (nops' = nops + 1 /\ lastcall'.op = "insert" /\ lastcall'.ok)
          => SpliceInside(lastcall'.ret.ptr, 0, AskedFor(lastcall'),
                          bson_size(heap, muts[1]), muts'[1].cap)
     /\ (nops' = nops + 1 /\ lastcall'.op \in {"erase", "erase_range"}
          /\ lastcall'.ok)
          => SpliceInside(lastcall'.ret.ptr,
                          bson_size(heap, muts[1])
                          - bson_size(heap', muts'[1]),
                          0, bson_size(heap, muts[1]), muts'[1].cap)
     /\ (nops' = nops + 1 /\ pc' = "undefined"
          /\ lastcall'.op \in {"insert", "erase", "erase_range"})
          => NoSpliceLeaves(heap, muts, lastcall'.k,
                            IF lastcall'.op = "insert"
                            THEN AskedFor(lastcall') ELSE 0)]_vars

\* the root has grown by an insert and was then edited again
C30_Witness ==
  /\ pc = "mut"
  /\ nops = MaxOps
  /\ lastcall.op \in {"insert", "erase"}
  /\ lastcall.ok
  /\ muts[1].cap > BigReserve + splice_slack
  /\ bson_size(heap, muts[1]) = muts[1].cap
====
